---- MODULE Spec2Model ----
(***************************************************************************)
(* Model of opencode-session-handoff: the handoff prompt formatters.       *)
(*   Compact  format: src/unnamed/part_002 (prompt.ts, "## Session         *)
(*                    Handoff")                                            *)
(*   Detailed format: src/prompt.ts (and its copy in src/unnamed/part_003) *)
(* Strings are TLA+ strings; a string[] is a sequence of strings; an       *)
(* optional value is a sequence of length 0 (undefined) or 1 (defined).    *)
(* The text parsers isHandoffTrigger and extractGoalFromHandoff are        *)
(* imported by src/index.test.ts from index.ts, but no file of src/        *)
(* defines them: they are modelled from sections 4.2 and 4.3 of the        *)
(* specification.                                                          *)
(* The tools session_handoff and read_session are the execute handlers of  *)
(* src/index.ts and of its later form src/unnamed/part_003; every await is *)
(* a step, and the client's answers are chosen by the environment.         *)
(***************************************************************************)
EXTENDS Integers, Sequences, FiniteSets, TLC

VARIABLES input, fmt, out,             \* the formatter: its argument and result
          message, recognized, extracted, \* the text parsers: argument, results
          variant,       \* which index.ts runs: "index" or "part_003"
          ctxSessionID,  \* ctx.sessionID of the session_handoff call
          toolArgs,      \* the arguments the assistant passes to session_handoff
          pc,            \* the await that session_handoff's execute is at
          local,         \* the local variables of session_handoff's execute
          inflight,      \* the fetches issued and not yet settled
          calls,         \* the client calls issued and settled, in order
          result,        \* what session_handoff's execute returned or threw
          rsSessionID,   \* ctx.sessionID of the read_session call
          rsPc,          \* the await that read_session's execute is at
          rsResult,      \* what read_session's execute returned
          hasChecked,    \* the flag of the auto-update hook
          eventLog,      \* the events the auto-update hook has handled
          timers,        \* the timers set by the hook and not yet fired
          checks,        \* the runs of runUpdateCheck started
          upc,           \* the await that runUpdateCheck is at
          installedVersion, \* what getCurrentVersion returns
          latestVersion, \* latestVersion of runUpdateCheck
          config,        \* the opencode config file
          cache,         \* the cached package in the config directory
          ulog           \* the steps runUpdateCheck has performed, in order

formatVars == <<input, fmt, out>>
triggerVars == <<message, recognized, extracted>>
handoffVars == <<variant, ctxSessionID, toolArgs, pc, local, inflight, result>>
readVars == <<rsSessionID, rsPc, rsResult>>
toolVars == <<handoffVars, calls, readVars>>
updateVars == <<hasChecked, eventLog, timers, checks, upc, installedVersion,
                latestVersion, config, cache, ulog>>
vars == <<formatVars, triggerVars, toolVars, updateVars>>

(***************************************************************************)
(* Bounds of the input families.                                           *)
(***************************************************************************)
MaxTodos == 3
MaxFiles == 2
MaxItems == 2
\* the longest run of whitespace put around and inside a message
MaxPad == 2
\* the number of events given to the auto-update hook
MaxEvents == 3

(***************************************************************************)
(* JavaScript primitives used by the formatters.                           *)
(***************************************************************************)
\* Array.prototype.join(sep) on a string[]
RECURSIVE join(_, _)
join(arr, sep) ==
  IF Len(arr) = 0 THEN ""
  ELSE IF Len(arr) = 1 THEN arr[1]
  ELSE arr[1] \o sep \o join(Tail(arr), sep)

\* Array.prototype.filter(test) is SelectSeq(arr, test); Array.prototype.map(f)
\* is [k \in 1..Len(arr) |-> f(arr[k], k - 1)], f receiving the element and its
\* 0-based index as in JavaScript.

\* Template-literal rendering of a non-negative number
numberToString(n) == ToString(n)

\* Truthiness of a string: "" is falsy, every other string is truthy
truthy(s) == s # ""

\* An optional value: undefined, or a defined value
undefined == <<>>
defined(v) == <<v>>
isDefined(o) == Len(o) = 1
valueOf(o) == o[1]

(***************************************************************************)
(* Compact format: src/unnamed/part_002                                    *)
(***************************************************************************)
\* variant: the sentinel "none" is not recognised
Compact_buildBlockedSection_noSentinel(blocked) ==
  IF ~truthy(blocked) THEN <<>>
  ELSE <<"", "**Blocked:** " \o blocked>>

Compact_buildBlockedSection(blocked) ==
  IF ~truthy(blocked) \/ blocked = "none" THEN <<>>
  ELSE <<"", "**Blocked:** " \o blocked>>

\* variant: every entry that is not pending counts as completed
todoIsCompleted_notPending(t) == t.status # "pending"
\* variant: an entry of unknown status is listed as in progress
todoIsInProgress_orUnknown(t) == t.status \notin {"completed", "pending"}
\* variant: an entry of unknown status is listed as pending
todoIsPending_orUnknown(t) == t.status \notin {"completed", "in_progress"}

todoIsCompleted(t) == t.status = "completed"
todoIsInProgress(t) == t.status = "in_progress"
todoIsPending(t) == t.status = "pending"
todoContent(t, i) == t.content

Compact_buildTodosSection(todos) ==
  IF ~isDefined(todos) \/ Len(valueOf(todos)) = 0 THEN <<>>
  ELSE
    LET list == valueOf(todos)
        completed == Len(SelectSeq(list, todoIsCompleted))
        inProgress == SelectSeq(list, todoIsInProgress)
        pending == SelectSeq(list, todoIsPending)
        lines0 == <<"", "**Todos:** " \o numberToString(completed) \o "/"
                          \o numberToString(Len(list)) \o " done">>
        lines1 == IF Len(inProgress) > 0
                  THEN Append(lines0, "- In progress: "
                                \o join([k \in 1..Len(inProgress) |->
                                         todoContent(inProgress[k], k - 1)], ", "))
                  ELSE lines0
        lines2 == IF Len(pending) > 0
                  THEN Append(lines1, "- Pending: "
                                \o join([k \in 1..Len(pending) |->
                                         todoContent(pending[k], k - 1)], ", "))
                  ELSE lines1
    IN lines2

\* variant: an absent section still contributes its empty line
Compact_buildFilesSection_strayBlank(modified) ==
  IF Len(modified) = 0 THEN <<"">>
  ELSE <<"", "**Files:** " \o join(modified, ", ")>>

Compact_buildFilesSection(modified) ==
  IF Len(modified) = 0 THEN <<>>
  ELSE <<"", "**Files:** " \o join(modified, ", ")>>

\* variant: the reason is parenthesised even when it is empty
Compact_decisionItem_alwaysParens(d, i) == d.decision \o " (" \o d.reason \o ")"

Compact_decisionItem(d, i) ==
  IF truthy(d.reason) THEN d.decision \o " (" \o d.reason \o ")" ELSE d.decision

Compact_buildDecisionsSection(decisions) ==
  IF Len(decisions) = 0 THEN <<>>
  ELSE <<"", "**Decisions:** "
               \o join([k \in 1..Len(decisions) |->
                         Compact_decisionItem(decisions[k], k - 1)], "; ")>>

Compact_stepItem(s, i) == numberToString(i + 1) \o ". " \o s

Compact_buildNextStepsSection(steps) ==
  IF Len(steps) = 0 THEN <<>>
  ELSE <<"", "**Next:** "
               \o join([k \in 1..Len(steps) |-> Compact_stepItem(steps[k], k - 1)], " ")>>

\* The backtick character of the footer literals; a TLA+ string cannot hold
\* it, so it is written as its escape.
backtick == "\\u0060"

\* The two code points U+00C2 U+00B7 that stand between "Previous" and "Use" in
\* the source's footer literal; a TLA+ string holds ASCII only, so they are
\* written as their escapes.
footerSeparator == "\\u00c2\\u00b7"

\* variant: the Files line lists the reference files after the modified ones
Compact_buildHandoffPrompt_withReference(args) ==
  join(<<"## Session Handoff", "", args.summary>>
         \o Compact_buildBlockedSection(args.blocked)
         \o Compact_buildTodosSection(args.todos)
         \o Compact_buildFilesSection(args.modified_files \o args.reference_files)
         \o Compact_buildDecisionsSection(args.decisions)
         \o Compact_buildNextStepsSection(args.next_steps)
         \o <<"", "---",
              "Previous: " \o backtick \o args.previousSessionId \o backtick
                \o " " \o footerSeparator \o " Use " \o backtick
                \o "read_session" \o backtick
                \o " if you need more context.">>,
       "\n")

Compact_buildHandoffPrompt(args) ==
  join(<<"## Session Handoff", "", args.summary>>
         \o Compact_buildBlockedSection(args.blocked)
         \o Compact_buildTodosSection(args.todos)
         \o Compact_buildFilesSection(args.modified_files)
         \o Compact_buildDecisionsSection(args.decisions)
         \o Compact_buildNextStepsSection(args.next_steps)
         \o <<"", "---",
              "Previous: " \o backtick \o args.previousSessionId \o backtick
                \o " " \o footerSeparator \o " Use " \o backtick
                \o "read_session" \o backtick
                \o " if you need more context.">>,
       "\n")

(***************************************************************************)
(* Detailed format: src/prompt.ts                                          *)
(***************************************************************************)
buildBlockedSection(blocked) ==
  IF ~truthy(blocked) \/ blocked = "none" THEN <<>>
  ELSE <<"", "### Blocked", blocked>>

\* variant: only an undefined list suppresses the section, an empty one does not
buildTodosSection_undefinedOnly(todos) ==
  IF ~isDefined(todos) THEN <<>>
  ELSE
    LET list == valueOf(todos)
        completed == Len(SelectSeq(list, todoIsCompleted))
        inProgress == SelectSeq(list, todoIsInProgress)
        pending == SelectSeq(list, todoIsPending)
        lines0 == <<"", "### Todos", numberToString(completed) \o "/"
                          \o numberToString(Len(list)) \o " complete">>
        lines1 == IF Len(inProgress) > 0
                  THEN Append(lines0, "In progress: "
                                \o join([k \in 1..Len(inProgress) |->
                                         todoContent(inProgress[k], k - 1)], ", "))
                  ELSE lines0
        lines2 == IF Len(pending) > 0
                  THEN Append(lines1, "Pending: "
                                \o join([k \in 1..Len(pending) |->
                                         todoContent(pending[k], k - 1)], ", "))
                  ELSE lines1
    IN lines2

buildTodosSection(todos) ==
  IF ~isDefined(todos) \/ Len(valueOf(todos)) = 0 THEN <<>>
  ELSE
    LET list == valueOf(todos)
        completed == Len(SelectSeq(list, todoIsCompleted))
        inProgress == SelectSeq(list, todoIsInProgress)
        pending == SelectSeq(list, todoIsPending)
        lines0 == <<"", "### Todos", numberToString(completed) \o "/"
                          \o numberToString(Len(list)) \o " complete">>
        lines1 == IF Len(inProgress) > 0
                  THEN Append(lines0, "In progress: "
                                \o join([k \in 1..Len(inProgress) |->
                                         todoContent(inProgress[k], k - 1)], ", "))
                  ELSE lines0
        lines2 == IF Len(pending) > 0
                  THEN Append(lines1, "Pending: "
                                \o join([k \in 1..Len(pending) |->
                                         todoContent(pending[k], k - 1)], ", "))
                  ELSE lines1
    IN lines2

\* variant: the section is guarded by modified alone, as in the Compact format
buildFilesSection_modifiedOnly(modified, reference) ==
  IF Len(modified) = 0 THEN <<>>
  ELSE
    LET lines0 == <<"", "### Files", "Modified: " \o join(modified, ", ")>>
    IN IF Len(reference) > 0
       THEN Append(lines0, "Reference: " \o join(reference, ", "))
       ELSE lines0

buildFilesSection(modified, reference) ==
  IF Len(modified) = 0 /\ Len(reference) = 0 THEN <<>>
  ELSE
    LET lines0 == <<"", "### Files">>
        lines1 == IF Len(modified) > 0
                  THEN Append(lines0, "Modified: " \o join(modified, ", "))
                  ELSE lines0
        lines2 == IF Len(reference) > 0
                  THEN Append(lines1, "Reference: " \o join(reference, ", "))
                  ELSE lines1
    IN lines2

decisionBullet(d, i) == "- " \o d.decision \o ": " \o d.reason

buildDecisionsSection(decisions) ==
  IF Len(decisions) = 0 THEN <<>>
  ELSE <<"", "### Decisions Made">>
         \o [k \in 1..Len(decisions) |-> decisionBullet(decisions[k], k - 1)]

\* variant: the bullet leaves out why the approach failed
triedBullet_noReason(t, i) == "- " \o t.approach

triedBullet(t, i) == "- " \o t.approach \o ": " \o t.why_failed

buildTriedFailedSection(tried) ==
  IF Len(tried) = 0 THEN <<>>
  ELSE <<"", "### Tried & Failed">> \o [k \in 1..Len(tried) |-> triedBullet(tried[k], k - 1)]

\* variant: the label is the 0-based index
stepLine_zeroBased(step, i) == numberToString(i) \o ". " \o step

stepLine(step, i) == numberToString(i + 1) \o ". " \o step

buildNextStepsSection(steps) ==
  IF Len(steps) = 0 THEN <<>>
  ELSE <<"", "### Next Steps">> \o [k \in 1..Len(steps) |-> stepLine(steps[k], k - 1)]

prefBullet(p, i) == "- " \o p

\* variant: the heading is emitted for an empty list too
buildUserPrefsSection_noGuard(prefs) ==
  <<"", "### User Preferences">> \o [k \in 1..Len(prefs) |-> prefBullet(prefs[k], k - 1)]

buildUserPrefsSection(prefs) ==
  IF Len(prefs) = 0 THEN <<>>
  ELSE <<"", "### User Preferences">> \o [k \in 1..Len(prefs) |-> prefBullet(prefs[k], k - 1)]

\* variant: the task is emitted verbatim, without the fallback text
buildHandoffPrompt_noFallback(args) ==
  join(<<"## Handoff Continuation Prompt", "", "### Task", args.task>>
         \o buildBlockedSection(args.blocked)
         \o buildTodosSection(args.todos)
         \o buildFilesSection(args.modified_files, args.reference_files)
         \o buildDecisionsSection(args.decisions)
         \o buildTriedFailedSection(args.tried_failed)
         \o buildNextStepsSection(args.next_steps)
         \o buildUserPrefsSection(args.user_prefs)
         \o <<"", "---",
              "Continuing from session " \o backtick \o args.previousSessionId
                \o backtick \o ". Use " \o backtick \o "read_session"
                \o backtick \o " tool if you need additional context.">>,
       "\n")

\* variant: Next Steps is placed before Tried & Failed
buildHandoffPrompt_stepsFirst(args) ==
  join(<<"## Handoff Continuation Prompt", "", "### Task",
         IF truthy(args.task) THEN args.task ELSE "Continue previous work">>
         \o buildBlockedSection(args.blocked)
         \o buildTodosSection(args.todos)
         \o buildFilesSection(args.modified_files, args.reference_files)
         \o buildDecisionsSection(args.decisions)
         \o buildNextStepsSection(args.next_steps)
         \o buildTriedFailedSection(args.tried_failed)
         \o buildUserPrefsSection(args.user_prefs)
         \o <<"", "---",
              "Continuing from session " \o backtick \o args.previousSessionId
                \o backtick \o ". Use " \o backtick \o "read_session"
                \o backtick \o " tool if you need additional context.">>,
       "\n")

buildHandoffPrompt(args) ==
  join(<<"## Handoff Continuation Prompt", "", "### Task",
         IF truthy(args.task) THEN args.task ELSE "Continue previous work">>
         \o buildBlockedSection(args.blocked)
         \o buildTodosSection(args.todos)
         \o buildFilesSection(args.modified_files, args.reference_files)
         \o buildDecisionsSection(args.decisions)
         \o buildTriedFailedSection(args.tried_failed)
         \o buildNextStepsSection(args.next_steps)
         \o buildUserPrefsSection(args.user_prefs)
         \o <<"", "---",
              "Continuing from session " \o backtick \o args.previousSessionId
                \o backtick \o ". Use " \o backtick \o "read_session"
                \o backtick \o " tool if you need additional context.">>,
       "\n")

(***************************************************************************)
(* Inputs: bounded families of HandoffArgs records.  summary (Compact) and *)
(* task (Detailed) carry the same text.                                    *)
(***************************************************************************)
BoundedSeq(S, n) == UNION {[1..k -> S] : k \in 0..n}

SessionIds == {"ses_123", "ses_abc"}
Texts == {"", "Fix login"}
Blockeds == {"", "none", "None", "API down"}
TodoStatuses == {"completed", "in_progress", "pending", "cancelled"}
TodoValues == [content : {"Task 1", "Task 2"}, status : TodoStatuses]
FileNames == {"src/index.ts", "src/utils.ts", "docs/api.md"}
DecisionValues == [decision : {"Use ESM", "Pin deps"}, reason : {"", "Better tree-shaking"}]
TriedValues == [approach : {"Direct import", "Mocking"}, why_failed : {"", "Circular dependency"}]
StepValues == {"Fix tests", "Update docs", "Ship"}
PrefValues == {"Prefer functional style", "No classes"}

Base ==
  [previousSessionId |-> "ses_123", summary |-> "Fix login", task |-> "Fix login",
   blocked |-> "", modified_files |-> <<>>, reference_files |-> <<>>,
   decisions |-> <<>>, tried_failed |-> <<>>, next_steps |-> <<>>,
   user_prefs |-> <<>>, todos |-> undefined]

\* todos varies over every list up to MaxTodos entries, and undefined
TodoInputs ==
  {[Base EXCEPT !.todos = t] :
     t \in {undefined} \cup {defined(l) : l \in BoundedSeq(TodoValues, MaxTodos)}}

\* modified_files and reference_files vary over every list up to MaxFiles names
FileInputs ==
  {[Base EXCEPT !.modified_files = m, !.reference_files = r] :
     m \in BoundedSeq(FileNames, MaxFiles), r \in BoundedSeq(FileNames, MaxFiles)}

\* decisions, tried_failed, next_steps, user_prefs: every list up to MaxItems
ItemInputs ==
  {[Base EXCEPT !.decisions = d] : d \in BoundedSeq(DecisionValues, MaxItems)}
  \cup {[Base EXCEPT !.tried_failed = t] : t \in BoundedSeq(TriedValues, MaxItems)}
  \cup {[Base EXCEPT !.next_steps = n] : n \in BoundedSeq(StepValues, MaxItems + 1)}
  \cup {[Base EXCEPT !.user_prefs = u] : u \in BoundedSeq(PrefValues, MaxItems)}

\* every combination of present and absent sections
SectionInputs ==
  {[previousSessionId |-> sid, summary |-> text, task |-> text, blocked |-> b,
    modified_files |-> m, reference_files |-> r, decisions |-> d,
    tried_failed |-> t, next_steps |-> n, user_prefs |-> u, todos |-> td] :
     sid \in SessionIds, text \in Texts, b \in Blockeds,
     m \in {<<>>, <<"src/index.ts", "src/utils.ts">>},
     r \in {<<>>, <<"docs/api.md">>},
     d \in {<<>>, <<[decision |-> "Use ESM", reason |-> "Better tree-shaking"],
                    [decision |-> "Pin deps", reason |-> ""]>>},
     t \in {<<>>, <<[approach |-> "Direct import", why_failed |-> "Circular dependency"]>>},
     n \in {<<>>, <<"Fix tests", "Update docs">>},
     u \in {<<>>, <<"Prefer functional style", "No classes">>},
     td \in {undefined, defined(<<>>),
             defined(<<[content |-> "Task 1", status |-> "completed"],
                       [content |-> "Task 2", status |-> "in_progress"],
                       [content |-> "Task 3", status |-> "pending"]>>)}}

Inputs == TodoInputs \cup FileInputs \cup ItemInputs \cup SectionInputs

(***************************************************************************)
(* The state machine: one input record, formatted once in either format.   *)
(***************************************************************************)
\* the local variables of session_handoff's execute as first assigned
\* (src/index.ts:163-166); the later ones are not yet assigned
localDefaults ==
  [todos |-> undefined, previousTitle |-> "Unknown", modelConfig |-> undefined,
   agent |-> undefined, handoffPrompt |-> "", newTitle |-> "",
   sessionId |-> undefined]

\* no tool has been called
ToolIdle ==
  /\ variant = "index"
  /\ ctxSessionID = undefined
  /\ toolArgs = undefined
  /\ pc = "idle"
  /\ local = localDefaults
  /\ inflight = {}
  /\ calls = <<>>
  /\ result = undefined
  /\ rsSessionID = undefined
  /\ rsPc = "idle"
  /\ rsResult = undefined

\* the auto-update hook has handled no event
UpdateIdle ==
  /\ hasChecked = FALSE
  /\ eventLog = <<>>
  /\ timers = 0
  /\ checks = 0
  /\ upc = "idle"
  /\ installedVersion = undefined
  /\ latestVersion = undefined
  /\ config = undefined
  /\ cache = [pkgDir |-> FALSE, packageJson |-> "missing", bunLock |-> "missing"]
  /\ ulog = <<>>

\* no parser has been called
TriggerIdle == message = "" /\ recognized = undefined /\ extracted = undefined

Init ==
  /\ input \in Inputs
  /\ fmt = "none"
  /\ out = ""
  /\ TriggerIdle
  /\ ToolIdle
  /\ UpdateIdle

\* src/unnamed/part_002: buildHandoffPrompt(args) of the Compact formatter
FormatCompact ==
  /\ fmt = "none"
  /\ fmt' = "compact"
  /\ out' = Compact_buildHandoffPrompt(input)
  /\ UNCHANGED <<input, triggerVars, toolVars, updateVars>>

\* src/prompt.ts: buildHandoffPrompt(args) of the Detailed formatter
FormatDetailed ==
  /\ fmt = "none"
  /\ fmt' = "detailed"
  /\ out' = buildHandoffPrompt(input)
  /\ UNCHANGED <<input, triggerVars, toolVars, updateVars>>

Next == FormatCompact \/ FormatDetailed

Spec == Init /\ [][Next]_vars

(***************************************************************************)
(* Reading a rendered document back.                                       *)
(***************************************************************************)
\* the positions of the line breaks of s
lineBreaks(s) == {i \in 1..Len(s) : SubSeq(s, i, i) = "\n"}

\* the lines of a document: the pieces between its line breaks
Lines(s) ==
  LET NL == lineBreaks(s)
      n == Cardinality(NL)
      pos(k) == IF k = 0 THEN 0
                ELSE IF k = n + 1 THEN Len(s) + 1
                ELSE CHOOSE p \in NL : Cardinality({q \in NL : q < p}) = k - 1
  IN [k \in 1..(n + 1) |-> SubSeq(s, pos(k - 1) + 1, pos(k) - 1)]

StartsWith(s, p) == Len(s) >= Len(p) /\ SubSeq(s, 1, Len(p)) = p

Contains(s, sub) ==
  \E i \in 1..(Len(s) - Len(sub) + 1) : SubSeq(s, i, i + Len(sub) - 1) = sub

\* the number of places where sub occurs in s
Occurrences(s, sub) ==
  Cardinality({i \in 1..(Len(s) - Len(sub) + 1) : SubSeq(s, i, i + Len(sub) - 1) = sub})

\* the positions of the lines that start with p
LinesStarting(ls, p) == {i \in 1..Len(ls) : StartsWith(ls[i], p)}

\* the positions of the lines equal to l
LinesEqual(ls, l) == {i \in 1..Len(ls) : ls[i] = l}

TypeOK ==
  /\ input \in Inputs
  /\ fmt \in {"none", "compact", "detailed"}
  /\ fmt = "none" => out = ""

(***************************************************************************)
(* Reference readings of the input, written independently of the           *)
(* formatters, against which the rendered document is compared.            *)
(***************************************************************************)
\* the todo list, empty when todos is undefined
todoList == IF isDefined(input.todos) THEN valueOf(input.todos) ELSE <<>>

\* the positions of the entries of list whose status is st
positionsWith(list, st) == {i \in 1..Len(list) : list[i].status = st}

\* the contents of the entries of list whose status is st, in input order
RECURSIVE contentsWith(_, _)
contentsWith(list, st) ==
  IF Len(list) = 0 THEN <<>>
  ELSE contentsWith(SubSeq(list, 1, Len(list) - 1), st)
         \o (IF list[Len(list)].status = st THEN <<list[Len(list)].content>> ELSE <<>>)

\* the strings of cs, in order, with sep between neighbours
RECURSIVE joinedBy(_, _)
joinedBy(cs, sep) ==
  IF Len(cs) = 0 THEN ""
  ELSE IF Len(cs) = 1 THEN cs[1]
  ELSE joinedBy(SubSeq(cs, 1, Len(cs) - 1), sep) \o sep \o cs[Len(cs)]

formatted == fmt \in {"compact", "detailed"}

(***************************************************************************)
(* Claims                                                                  *)
(***************************************************************************)
\* C1: in both formats the Blocked section (Compact: the one line
\* "**Blocked:** <blocked>"; Detailed: the heading "### Blocked" followed by
\* the blocked text) is in the output if and only if blocked is non-empty and
\* is not exactly "none"; when present it carries the blocked text verbatim.
C1_BlockedSection ==
  LET ls == Lines(out)
      wanted == input.blocked # "" /\ input.blocked # "none"
      compactAt == LinesStarting(ls, "**Blocked:**")
      detailedAt == LinesEqual(ls, "### Blocked")
  IN /\ fmt = "compact" =>
          /\ (compactAt # {}) <=> wanted
          /\ wanted => /\ Cardinality(compactAt) = 1
                       /\ \A i \in compactAt : ls[i] = "**Blocked:** " \o input.blocked
     /\ fmt = "detailed" =>
          /\ (detailedAt # {}) <=> wanted
          /\ wanted => /\ Cardinality(detailedAt) = 1
                       /\ \A i \in detailedAt : i < Len(ls) /\ ls[i + 1] = input.blocked
     /\ formatted /\ ~wanted => ~Contains(out, "Blocked")

\* C1 witness: a Detailed document rendered with a blocker other than "none"
C1_Witness ==
  /\ fmt = "detailed"
  /\ input.blocked = "None"
  /\ Contains(out, "\n\n### Blocked\nNone\n")

\* C2: for every non-empty todos list, in both formats, the rendered ratio
\* c/t has c equal to the number of entries whose status is exactly
\* "completed" and t equal to the length of the list.
C2_TodosRatio ==
  LET ls == Lines(out)
      c == Cardinality(positionsWith(todoList, "completed"))
      ratio == ToString(c) \o "/" \o ToString(Len(todoList))
      compactAt == LinesStarting(ls, "**Todos:**")
      detailedAt == LinesEqual(ls, "### Todos")
  IN Len(todoList) > 0 =>
       /\ fmt = "compact" =>
            /\ Cardinality(compactAt) = 1
            /\ \A i \in compactAt : ls[i] = "**Todos:** " \o ratio \o " done"
       /\ fmt = "detailed" =>
            /\ Cardinality(detailedAt) = 1
            /\ \A i \in detailedAt : i < Len(ls) /\ ls[i + 1] = ratio \o " complete"

\* C2 witness: a Compact document whose list has two completed entries among
\* three, one of them of unknown status
C2_Witness ==
  /\ fmt = "compact"
  /\ Len(todoList) = 3
  /\ Cardinality(positionsWith(todoList, "completed")) = 2
  /\ positionsWith(todoList, "cancelled") # {}
  /\ Contains(out, "\n**Todos:** 2/3 done\n")

\* C3: in the Todos section of both formats the "In progress:" line lists
\* exactly the contents of the entries with status "in_progress", in input
\* order and joined by ", ", and is omitted if and only if there is no such
\* entry; the same holds for the "Pending:" line and status "pending"; the
\* In progress line, when present, precedes the Pending line.
C3_TodoLists ==
  LET ls == Lines(out)
      dash == IF fmt = "compact" THEN "- " ELSE ""
      ip == contentsWith(todoList, "in_progress")
      pe == contentsWith(todoList, "pending")
      ipAt == LinesStarting(ls, dash \o "In progress:")
      peAt == LinesStarting(ls, dash \o "Pending:")
  IN formatted =>
       /\ (ipAt = {}) <=> (Len(ip) = 0)
       /\ (peAt = {}) <=> (Len(pe) = 0)
       /\ Cardinality(ipAt) <= 1 /\ Cardinality(peAt) <= 1
       /\ \A i \in ipAt : ls[i] = dash \o "In progress: " \o joinedBy(ip, ", ")
       /\ \A j \in peAt : ls[j] = dash \o "Pending: " \o joinedBy(pe, ", ")
       /\ \A i \in ipAt : \A j \in peAt : i < j
       /\ ~Contains(out, "In progress:") <=> (Len(ip) = 0)
       /\ ~Contains(out, "Pending:") <=> (Len(pe) = 0)

\* C3 witness: two in-progress entries listed in input order before one
\* pending entry
C3_Witness ==
  /\ fmt = "detailed"
  /\ todoList = <<[content |-> "Task 2", status |-> "in_progress"],
                  [content |-> "Task 1", status |-> "pending"],
                  [content |-> "Task 1", status |-> "in_progress"]>>
  /\ Contains(out, "\nIn progress: Task 2, Task 1\nPending: Task 1\n")

\* the three statuses the formatters know
KnownStatuses == {"completed", "in_progress", "pending"}

\* the <c, t> pairs for which the document holds the ratio line c/t
RenderedRatios(ls) ==
  LET N == Len(todoList) + 1
      line(c, t) == IF fmt = "compact"
                    THEN "**Todos:** " \o ToString(c) \o "/" \o ToString(t) \o " done"
                    ELSE ToString(c) \o "/" \o ToString(t) \o " complete"
  IN {ct \in (0..N) \X (0..N) : LinesEqual(ls, line(ct[1], ct[2])) # {}}

\* the number of items the lines starting with p list, separated by ", "
ListedItems(ls, p) ==
  LET at == LinesStarting(ls, p)
  IN IF at = {} THEN 0
     ELSE LET i == CHOOSE i \in at : TRUE IN 1 + Occurrences(ls[i], ", ")

\* C4: a todo whose status is none of "completed", "in_progress", "pending"
\* adds one to the ratio's denominator but is counted in neither the numerator
\* nor either displayed list: completed + |in progress listed| + |pending
\* listed| <= total, with equality exactly when every status is one of the
\* three known values, and a list made only of unknown statuses still renders
\* the section as 0/<total> with no sub-lines.
C4_UnknownStatus ==
  LET ls == Lines(out)
      dash == IF fmt = "compact" THEN "- " ELSE ""
      unknown == {i \in 1..Len(todoList) : todoList[i].status \notin KnownStatuses}
      nIp == ListedItems(ls, dash \o "In progress: ")
      nPe == ListedItems(ls, dash \o "Pending: ")
  IN (formatted /\ Len(todoList) > 0) =>
       /\ Cardinality(RenderedRatios(ls)) = 1
       /\ \A ct \in RenderedRatios(ls) :
            /\ ct[2] = Len(todoList)
            /\ ct[1] + nIp + nPe <= ct[2]
            /\ ct[2] - (ct[1] + nIp + nPe) = Cardinality(unknown)
            /\ (ct[1] + nIp + nPe = ct[2]) <=> (unknown = {})
            /\ Cardinality(unknown) = Len(todoList) =>
                 /\ ct[1] = 0
                 /\ nIp = 0 /\ nPe = 0
                 /\ ~Contains(out, "In progress") /\ ~Contains(out, "Pending")

\* C4 witness: a Compact document for a list of two entries, both of unknown
\* status, rendered as 0/2 and followed directly by the footer
C4_Witness ==
  /\ fmt = "compact"
  /\ Len(todoList) = 2
  /\ \A i \in 1..2 : todoList[i].status = "cancelled"
  /\ Contains(out, "\n\n**Todos:** 0/2 done\n\n---\n")

\* C5: for every nextSteps list of length N >= 1 the output labels the steps
\* "1." through "N." with label i attached to the i-th input step, in input
\* order: in Compact all on the single line "**Next:** 1. <s1> 2. <s2> ..."
\* separated by one space, in Detailed as N consecutive lines "<i>. <step>"
\* under "### Next Steps"; no step is dropped, duplicated, renumbered or
\* reordered.
C5_NextSteps ==
  LET ls == Lines(out)
      steps == input.next_steps
      N == Len(steps)
      labelled == [i \in 1..N |-> ToString(i) \o ". " \o steps[i]]
      compactAt == LinesStarting(ls, "**Next:**")
      detailedAt == LinesEqual(ls, "### Next Steps")
  IN N >= 1 =>
       /\ fmt = "compact" =>
            /\ Cardinality(compactAt) = 1
            /\ \A h \in compactAt :
                 /\ ls[h] = "**Next:** " \o joinedBy(labelled, " ")
                 /\ Occurrences(ls[h], ". ") = N
                 /\ \A i \in 1..N : Occurrences(ls[h], ToString(i) \o ". ") = 1
       /\ fmt = "detailed" =>
            /\ Cardinality(detailedAt) = 1
            /\ \A h \in detailedAt :
                 /\ h + N + 1 <= Len(ls)
                 /\ \A i \in 1..N : ls[h + i] = labelled[i]
                 /\ ls[h + N + 1] = ""

\* C5 witness: three steps, the first two in reverse alphabetical order,
\* rendered in Detailed format as three consecutive numbered lines
C5_Witness ==
  /\ fmt = "detailed"
  /\ input.next_steps = <<"Update docs", "Fix tests", "Update docs">>
  /\ Contains(out, "\n### Next Steps\n1. Update docs\n2. Fix tests\n3. Update docs\n\n---")

\* C6: in Compact format each decision is rendered as "<decision> (<reason>)"
\* when its reason is non-empty and as "<decision>" alone (no parentheses)
\* when its reason is empty, all entries joined by "; " on one
\* "**Decisions:** " line in input order; in Detailed format every decision is
\* its own bullet "- <decision>: <reason>", the colon kept even when the
\* reason is empty.
C6_Decisions ==
  LET ls == Lines(out)
      ds == input.decisions
      N == Len(ds)
      withReason == {i \in 1..N : ds[i].reason # ""}
      item == [i \in 1..N |-> IF i \in withReason
                              THEN ds[i].decision \o " (" \o ds[i].reason \o ")"
                              ELSE ds[i].decision]
      compactAt == LinesStarting(ls, "**Decisions:**")
      detailedAt == LinesEqual(ls, "### Decisions Made")
  IN N >= 1 =>
       /\ fmt = "compact" =>
            /\ Cardinality(compactAt) = 1
            /\ \A h \in compactAt :
                 /\ ls[h] = "**Decisions:** " \o joinedBy(item, "; ")
                 /\ Occurrences(ls[h], "(") = Cardinality(withReason)
                 /\ Occurrences(ls[h], ")") = Cardinality(withReason)
                 /\ ~Contains(ls[h], "()")
                 /\ Occurrences(ls[h], "; ") = N - 1
       /\ fmt = "detailed" =>
            /\ Cardinality(detailedAt) = 1
            /\ \A h \in detailedAt :
                 /\ h + N + 1 <= Len(ls)
                 /\ \A i \in 1..N :
                      ls[h + i] = "- " \o ds[i].decision \o ": " \o ds[i].reason
                 /\ \A i \in (1..N) \ withReason :
                      ls[h + i] = "- " \o ds[i].decision \o ": "
                 /\ ls[h + N + 1] = ""

\* C6 witness: a Compact document with a reasoned decision followed by one
\* whose reason is empty
C6_Witness ==
  /\ fmt = "compact"
  /\ Len(input.decisions) = 2
  /\ input.decisions[1].reason # "" /\ input.decisions[2].reason = ""
  /\ Contains(out, "\n**Decisions:** Use ESM (Better tree-shaking); Pin deps\n")

(***************************************************************************)
(* The sections of a document, as the specification enumerates them.       *)
(***************************************************************************)
\* the markers of the optional sections of the format in use, in the
\* specification's order
Markers ==
  IF fmt = "compact"
  THEN <<"**Blocked:**", "**Todos:**", "**Files:**", "**Decisions:**", "**Next:**">>
  ELSE <<"### Blocked", "### Todos", "### Files", "### Decisions Made",
         "### Tried & Failed", "### Next Steps", "### User Preferences">>

\* whether the section of the k-th marker is due for the input
Due(k) ==
  LET blockedDue == input.blocked # "" /\ input.blocked # "none"
      todosDue == Len(todoList) > 0
  IN IF fmt = "compact"
     THEN <<blockedDue, todosDue, Len(input.modified_files) > 0,
            Len(input.decisions) > 0, Len(input.next_steps) > 0>>[k]
     ELSE <<blockedDue, todosDue,
            Len(input.modified_files) > 0 \/ Len(input.reference_files) > 0,
            Len(input.decisions) > 0, Len(input.tried_failed) > 0,
            Len(input.next_steps) > 0, Len(input.user_prefs) > 0>>[k]

\* the positions of the lines that open the k-th section
MarkerAt(ls, k) == LinesStarting(ls, Markers[k])

\* the positions of the first lines of the optional sections and of the footer
SectionStarts(ls) ==
  UNION {MarkerAt(ls, k) : k \in 1..Len(Markers)} \cup LinesEqual(ls, "---")

\* the positions i at which lines i and i + 1 are both empty
DoubleBlanks(ls) == {i \in 1..(Len(ls) - 1) : ls[i] = "" /\ ls[i + 1] = ""}

\* the number of lines between the heading at h and the next empty line
BlockLen(ls, h) ==
  CHOOSE n \in 0..(Len(ls) - h) :
    /\ \A i \in 1..n : ls[h + i] # ""
    /\ h + n + 1 <= Len(ls) => ls[h + n + 1] = ""

\* the number of lines the document has when every due section is rendered
\* in full and no other line is added
ExpectedLineCount ==
  LET one(b) == IF b THEN 1 ELSE 0
      ipLine == one(positionsWith(todoList, "in_progress") # {})
      peLine == one(positionsWith(todoList, "pending") # {})
  IN IF fmt = "compact"
     THEN 3 + 2 * one(Due(1)) + (2 + ipLine + peLine) * one(Due(2))
          + 2 * one(Due(3)) + 2 * one(Due(4)) + 2 * one(Due(5)) + 3
     ELSE 4 + 3 * one(Due(1)) + (3 + ipLine + peLine) * one(Due(2))
          + (2 + one(Len(input.modified_files) > 0)
               + one(Len(input.reference_files) > 0)) * one(Due(3))
          + (2 + Len(input.decisions)) * one(Due(4))
          + (2 + Len(input.tried_failed)) * one(Due(5))
          + (2 + Len(input.next_steps)) * one(Due(6))
          + (2 + Len(input.user_prefs)) * one(Due(7)) + 3

\* the number of sections due for the input
DueCount == Cardinality({k \in 1..Len(Markers) : Due(k)})

\* C7 as stated: every present section (and the footer) is preceded by
\* exactly one empty line, an absent section contributes no line, and
\* consequently the output never starts with an empty line and never
\* contains two consecutive empty lines.
C7_AsStated ==
  LET ls == Lines(out)
  IN formatted =>
       /\ \A i \in SectionStarts(ls) : i > 2 /\ ls[i - 1] = "" /\ ls[i - 2] # ""
       /\ Len(ls) = ExpectedLineCount
       /\ ls[1] # ""
       /\ DoubleBlanks(ls) = {}

\* C7 (amended): for every input whose text fields contain no line break,
\* every present section (and the footer) contributes exactly one empty
\* line, directly before its first line, and an absent section contributes
\* no line at all; the output never starts with an empty line; two
\* consecutive empty lines occur only in Compact format with an empty
\* summary, whose empty line 3 stands between the header's empty line and
\* the empty line of the first section or footer.
C7_BlankLines ==
  LET ls == Lines(out)
      emptySummary == fmt = "compact" /\ input.summary = ""
  IN formatted =>
       /\ \A i \in SectionStarts(ls) :
            /\ i > 2 /\ ls[i - 1] = ""
            /\ (ls[i - 2] = "") <=> (emptySummary /\ i = 5)
       /\ Len(ls) = ExpectedLineCount
       /\ Cardinality(LinesEqual(ls, ""))
            = 1 + DueCount + 1 + (IF emptySummary THEN 1 ELSE 0)
       /\ ls[1] # ""
       /\ DoubleBlanks(ls) = (IF emptySummary THEN {2, 3} ELSE {})

\* C7 witness: a Compact document with an empty summary and the Files and
\* Next sections present, all others absent
C7_Witness ==
  /\ fmt = "compact"
  /\ input.summary = ""
  /\ {k \in 1..5 : Due(k)} = {3, 5}
  /\ DoubleBlanks(Lines(out)) = {2, 3}
  /\ Len(Lines(out)) = 10

\* C8: the output begins with the header line, then the summary/task, then
\* the present sections in the order Blocked, Todos, Files, Decisions,
\* (Detailed only: Tried & Failed), Next steps, (Detailed only: User
\* Preferences), and always ends with the three footer lines (empty line,
\* "---", the line echoing previousSessionId verbatim); which sections are
\* present never changes the relative order of the others.
C8_SectionOrder ==
  LET ls == Lines(out)
      n == Len(ls)
      sid == backtick \o input.previousSessionId \o backtick
  IN formatted =>
       /\ n >= 6
       /\ fmt = "compact" =>
            /\ ls[1] = "## Session Handoff" /\ ls[2] = "" /\ ls[3] = input.summary
            /\ \A k \in 1..Len(Markers) : \A i \in MarkerAt(ls, k) : 3 < i /\ i < n - 2
            /\ ls[n] = "Previous: " \o sid \o " " \o footerSeparator \o " Use "
                          \o backtick \o "read_session" \o backtick
                          \o " if you need more context."
       /\ fmt = "detailed" =>
            /\ ls[1] = "## Handoff Continuation Prompt" /\ ls[2] = ""
            /\ ls[3] = "### Task"
            /\ ls[4] = (IF input.task = "" THEN "Continue previous work" ELSE input.task)
            /\ \A k \in 1..Len(Markers) : \A i \in MarkerAt(ls, k) : 4 < i /\ i < n - 2
            /\ ls[n] = "Continuing from session " \o sid \o ". Use "
                          \o backtick \o "read_session" \o backtick
                          \o " tool if you need additional context."
       /\ \A a, b \in 1..Len(Markers) :
            a < b => \A i \in MarkerAt(ls, a) : \A j \in MarkerAt(ls, b) : i < j
       /\ ls[n - 2] = "" /\ ls[n - 1] = "---"
       /\ LinesEqual(ls, "---") = {n - 1}

\* C8 witness: a Detailed document in which every optional section is present
C8_Witness ==
  /\ fmt = "detailed"
  /\ \A k \in 1..7 : Due(k) /\ Cardinality(MarkerAt(Lines(out), k)) = 1
  /\ input.previousSessionId = "ses_abc"

\* C9: the marker of a list-driven section is in the output if and only if
\* its list is non-empty (Compact "**Todos:**", "**Files:**" for
\* modifiedFiles, "**Decisions:**", "**Next:**"; Detailed "### Todos",
\* "### Decisions Made", "### Tried & Failed", "### Next Steps",
\* "### User Preferences"); for todos an absent list and an empty list both
\* suppress the section; a section is rendered in full or entirely absent.
C9_ListSections ==
  LET ls == Lines(out)
      lists == IF fmt = "compact"
               THEN <<todoList, input.modified_files, input.decisions, input.next_steps>>
               ELSE <<todoList, input.decisions, input.tried_failed,
                      input.next_steps, input.user_prefs>>
      marker == IF fmt = "compact"
                THEN <<"**Todos:**", "**Files:**", "**Decisions:**", "**Next:**">>
                ELSE <<"### Todos", "### Decisions Made", "### Tried & Failed",
                       "### Next Steps", "### User Preferences">>
  IN formatted =>
       /\ \A k \in 1..Len(marker) :
            /\ Contains(out, marker[k]) <=> (Len(lists[k]) > 0)
            /\ Cardinality(LinesStarting(ls, marker[k]))
                 = (IF Len(lists[k]) > 0 THEN 1 ELSE 0)
            /\ \A h \in LinesStarting(ls, marker[k]) :
                 IF fmt = "compact"
                 THEN Len(ls[h]) > Len(marker[k]) + 1
                 ELSE /\ ls[h] = marker[k]
                      /\ BlockLen(ls, h) >= 1
                      /\ k > 1 => BlockLen(ls, h) = Len(lists[k])
       /\ (input.todos = undefined \/ input.todos = defined(<<>>)) =>
            ~Contains(out, "Todos")

\* C9 witness: a Detailed document rendered for todos present but empty,
\* with Tried & Failed and User Preferences present, Decisions and Next Steps absent
C9_Witness ==
  /\ fmt = "detailed"
  /\ input.todos = defined(<<>>)
  /\ Len(input.tried_failed) > 0 /\ Len(input.user_prefs) > 0
  /\ Len(input.decisions) = 0 /\ Len(input.next_steps) = 0
  /\ Contains(out, "### Tried & Failed") /\ Contains(out, "### User Preferences")

\* C10: in Detailed format the heading "### Files" is present if and only if
\* modifiedFiles or referenceFiles is non-empty; under it the line
\* "Modified: <files joined by ", ">" is present iff modifiedFiles is
\* non-empty and the line "Reference: <files joined by ", ">" iff
\* referenceFiles is non-empty, Modified before Reference, each list in input
\* order; the heading is never followed by zero file lines.
C10_DetailedFiles ==
  LET ls == Lines(out)
      m == input.modified_files
      r == input.reference_files
      one(b) == IF b THEN 1 ELSE 0
      filesAt == LinesEqual(ls, "### Files")
      modAt == LinesStarting(ls, "Modified:")
      refAt == LinesStarting(ls, "Reference:")
  IN fmt = "detailed" =>
       /\ (filesAt # {}) <=> (Len(m) > 0 \/ Len(r) > 0)
       /\ Cardinality(filesAt) <= 1
       /\ (modAt # {}) <=> (Len(m) > 0)
       /\ (refAt # {}) <=> (Len(r) > 0)
       /\ \A h \in filesAt :
            /\ BlockLen(ls, h) = one(Len(m) > 0) + one(Len(r) > 0)
            /\ BlockLen(ls, h) >= 1
            /\ modAt \subseteq {h + 1}
            /\ refAt \subseteq {h + 1 + one(Len(m) > 0)}
       /\ \A i \in modAt : ls[i] = "Modified: " \o joinedBy(m, ", ")
       /\ \A j \in refAt : ls[j] = "Reference: " \o joinedBy(r, ", ")
       /\ \A i \in modAt : \A j \in refAt : i < j

\* C10 witness: a Detailed document with reference files only
C10_Witness ==
  /\ fmt = "detailed"
  /\ input.modified_files = <<>>
  /\ input.reference_files = <<"docs/api.md", "src/index.ts">>
  /\ Contains(out, "\n\n### Files\nReference: docs/api.md, src/index.ts\n\n")

\* C11: the Compact output does not depend on referenceFiles, triedAndFailed
\* or userPreferences: two inputs that agree on every other field produce
\* identical Compact output whatever these three fields contain.
C11_CompactIgnores ==
  fmt = "compact" =>
    /\ \A r \in BoundedSeq(FileNames, 1) :
         \A t \in {<<>>, <<[approach |-> "Mocking", why_failed |-> ""]>>} :
           \A u \in {<<>>, <<"No classes">>} :
             Compact_buildHandoffPrompt(
               [input EXCEPT !.reference_files = r, !.tried_failed = t,
                             !.user_prefs = u]) = out
    /\ \A f \in FileNames :
         Contains(out, f) => \E i \in 1..Len(input.modified_files) :
                               input.modified_files[i] = f
    /\ ~Contains(out, "Reference") /\ ~Contains(out, "Tried")
    /\ ~Contains(out, "Preferences")

\* C11 witness: a Compact document rendered for an input whose reference
\* files, failed attempts and preferences are all non-empty, equal to the
\* document of the same input with the three fields emptied
C11_Witness ==
  /\ fmt = "compact"
  /\ Len(input.reference_files) > 0
  /\ Len(input.tried_failed) > 0
  /\ Len(input.user_prefs) > 0
  /\ Len(input.modified_files) > 0
  /\ out = Compact_buildHandoffPrompt(
             [input EXCEPT !.reference_files = <<>>, !.tried_failed = <<>>,
                           !.user_prefs = <<>>])

\* C12: in Detailed format the line after "### Task" is the task text
\* verbatim when it is non-empty and the literal "Continue previous work"
\* when it is empty, so that line is never empty; in Compact format the
\* summary is emitted verbatim as the third line even when it is empty, with
\* no fallback text.
C12_TaskLine ==
  LET ls == Lines(out)
  IN /\ fmt = "detailed" =>
          /\ LinesEqual(ls, "### Task") = {3}
          /\ input.task # "" => ls[4] = input.task
          /\ input.task = "" => ls[4] = "Continue previous work"
          /\ ls[4] # ""
     /\ fmt = "compact" =>
          /\ ls[3] = input.summary
          /\ ~Contains(out, "Continue previous work")
          /\ ~Contains(out, "### Task")

\* C12 witness: a Detailed document rendered for an empty task
C12_Witness ==
  /\ fmt = "detailed"
  /\ input.task = ""
  /\ StartsWith(out, "## Handoff Continuation Prompt\n\n### Task\nContinue previous work\n")

\* the input with an undefined todos made empty and an empty one undefined
todosToggled ==
  [input EXCEPT !.todos = IF @ = undefined THEN defined(<<>>)
                          ELSE IF @ = defined(<<>>) THEN undefined
                          ELSE @]

\* C13: the formatter is total: for every input record it returns exactly one
\* document and never fails; an absent optional field is treated as
\* present-but-empty, so the output for an input with todos absent equals the
\* output for the same input with todos the empty list.
C13_Total ==
  /\ fmt = "none" => ENABLED FormatCompact /\ ENABLED FormatDetailed
  /\ fmt = "compact" =>
       /\ StartsWith(out, "## Session Handoff\n")
       /\ out = Compact_buildHandoffPrompt(todosToggled)
  /\ fmt = "detailed" =>
       /\ StartsWith(out, "## Handoff Continuation Prompt\n")
       /\ out = buildHandoffPrompt(todosToggled)
  /\ (formatted /\ Len(todoList) = 0) => ~Contains(out, "Todos")

\* C13 witness: a Detailed document rendered for an input whose todos is
\* present and empty, with other sections present
C13_Witness ==
  /\ fmt = "detailed"
  /\ input.todos = defined(<<>>)
  /\ Len(input.next_steps) > 0
  /\ out = buildHandoffPrompt([input EXCEPT !.todos = undefined])

(***************************************************************************)
(* The text parsers (specification sections 4.2 and 4.3).                  *)
(***************************************************************************)
whitespace == {" ", "\t", "\n"}

charAt(s, i) == SubSeq(s, i, i)

\* String.prototype.trim
trim(s) ==
  LET kept == {i \in 1..Len(s) : charAt(s, i) \notin whitespace}
  IN IF kept = {} THEN ""
     ELSE SubSeq(s, CHOOSE i \in kept : \A j \in kept : i <= j,
                    CHOOSE i \in kept : \A j \in kept : i >= j)

upperCase == <<"A", "B", "C", "D", "E", "F", "G", "H", "I", "J", "K", "L", "M",
               "N", "O", "P", "Q", "R", "S", "T", "U", "V", "W", "X", "Y", "Z">>
lowerCase == <<"a", "b", "c", "d", "e", "f", "g", "h", "i", "j", "k", "l", "m",
               "n", "o", "p", "q", "r", "s", "t", "u", "v", "w", "x", "y", "z">>

lowerChar(c) ==
  IF \E k \in 1..26 : upperCase[k] = c
  THEN lowerCase[CHOOSE k \in 1..26 : upperCase[k] = c]
  ELSE c

\* String.prototype.toLowerCase
toLowerCase(s) == join([i \in 1..Len(s) |-> lowerChar(charAt(s, i))], "")

\* the explicit no-goal value
null == <<>>

\* variant: the trigger word is accepted anywhere in the message
isHandoffTrigger_anywhere(msg) ==
  LET normalized == toLowerCase(trim(msg))
  IN Contains(normalized, "handoff")

\* section 4.2: the trigger recognizer
isHandoffTrigger(msg) ==
  LET normalized == toLowerCase(trim(msg))
  IN \/ normalized \in {"handoff", "/handoff", "session handoff"}
     \/ \E prefix \in {"handoff ", "/handoff "} :
          /\ StartsWith(normalized, prefix)
          /\ \E i \in (Len(prefix) + 1)..Len(normalized) :
               charAt(normalized, i) \notin whitespace

\* the length of the trigger token that text starts with, 0 when there is none
triggerLength(text) ==
  LET lower == toLowerCase(text)
  IN IF StartsWith(lower, "/handoff") THEN 8
     ELSE IF StartsWith(lower, "handoff") THEN 7
     ELSE 0

\* variant: the goal is cut from the lower-cased text
extractGoalFromHandoff_lowerCased(msg) ==
  LET trimmed == toLowerCase(trim(msg))
      n == triggerLength(trimmed)
      rest == SubSeq(trimmed, n + 1, Len(trimmed))
  IN IF n = 0 \/ rest = "" \/ charAt(rest, 1) \notin whitespace THEN null
     ELSE IF trim(rest) = "" THEN null
     ELSE defined(trim(rest))

\* variant: the message is not trimmed first and an empty remainder is a goal
extractGoalFromHandoff_emptyGoal(msg) ==
  LET n == triggerLength(msg)
      rest == SubSeq(msg, n + 1, Len(msg))
  IN IF n = 0 \/ rest = "" \/ charAt(rest, 1) \notin whitespace THEN null
     ELSE defined(trim(rest))

\* section 4.3: the goal extractor
extractGoalFromHandoff(msg) ==
  LET trimmed == trim(msg)
      n == triggerLength(trimmed)
      rest == SubSeq(trimmed, n + 1, Len(trimmed))
  IN IF n = 0 \/ rest = "" \/ charAt(rest, 1) \notin whitespace THEN null
     ELSE IF trim(rest) = "" THEN null
     ELSE defined(trim(rest))

(***************************************************************************)
(* The messages the parsers are called on.                                 *)
(***************************************************************************)
\* the strings of at most n characters of C
RECURSIVE StringsOver(_, _)
StringsOver(C, n) ==
  IF n = 0 THEN {""}
  ELSE LET shorter == StringsOver(C, n - 1)
       IN shorter \cup {s \o c : s \in shorter, c \in C}

Pads == StringsOver({" "}, MaxPad)
Blanks == StringsOver({" ", "\t"}, MaxPad)
TriggerWords == {"handoff", "Handoff", "HANDOFF", "/handoff", "/Handoff"}
TriggerPhrases == {"session handoff", "Session Handoff"}
OtherWords == {"implement handoff feature", "hello world", "hand off the work",
               "handoffs", "my /handoff", ""}
Goals == {"implement login", "fix the failing tests", "Create PR", "fix tests",
          "Ship  v2"}

Messages ==
  LET words == TriggerWords \cup TriggerPhrases \cup OtherWords
  IN {a \o w \o b : a \in Pads, w \in words, b \in Blanks}
       \cup {a \o w \o b \o g \o c :
               a \in Pads, w \in words, b \in Blanks, g \in Goals, c \in Pads}

(***************************************************************************)
(* The state machine of the parsers: one message, given to each parser.    *)
(***************************************************************************)
InitTrigger ==
  /\ input = Base
  /\ fmt = "none"
  /\ out = ""
  /\ message \in Messages
  /\ recognized = undefined
  /\ extracted = undefined
  /\ ToolIdle
  /\ UpdateIdle

Recognize ==
  /\ recognized = undefined
  /\ recognized' = defined(isHandoffTrigger(message))
  /\ UNCHANGED <<formatVars, message, extracted, toolVars, updateVars>>

Extract ==
  /\ extracted = undefined
  /\ extracted' = defined(extractGoalFromHandoff(message))
  /\ UNCHANGED <<formatVars, message, recognized, toolVars, updateVars>>

NextTrigger == Recognize \/ Extract

SpecTrigger == InitTrigger /\ [][NextTrigger]_vars

(***************************************************************************)
(* Reference descriptions of the messages, written by construction.        *)
(***************************************************************************)
\* the messages that are a trigger word or phrase alone
BareTriggers ==
  {a \o w \o b : a \in Pads, w \in TriggerWords \cup TriggerPhrases, b \in Blanks}

\* the messages that are a trigger word, a space, and a goal
GoalTriggers ==
  {a \o w \o " " \o b \o g \o c :
     a \in Pads, w \in TriggerWords, b \in Blanks, g \in Goals, c \in Pads}

\* the messages that carry a goal: a trigger word, whitespace, and a goal
GoalMessages ==
  {a \o w \o b \o g \o c :
     a \in Pads, w \in TriggerWords, b \in Blanks \ {""}, g \in Goals, c \in Pads}

\* the messages that do not start with a trigger word
OtherMessages ==
  {a \o w \o b \o g \o c :
     a \in Pads, w \in TriggerPhrases \cup OtherWords, b \in Blanks,
     g \in Goals \cup {""}, c \in Pads}

\* C14: isHandoffTrigger(message) is true if and only if the message, trimmed
\* and lower-cased, is exactly handoff, /handoff or session handoff, or is
\* handoff or /handoff followed by a space and at least one non-whitespace
\* character; it is false for every other message, in particular when
\* handoff occurs only inside a longer phrase.
C14_Trigger ==
  isDefined(recognized) =>
    /\ valueOf(recognized) = (message \in BareTriggers \cup GoalTriggers)
    /\ \A a \in Pads, w \in OtherWords, b \in Blanks :
         message = a \o w \o b => valueOf(recognized) = FALSE

\* C14 witness: the recognizer has rejected a message that has the trigger
\* word inside a longer phrase
C14_Witness ==
  /\ message = "implement handoff feature"
  /\ recognized = defined(FALSE)

\* C15: for every non-empty goal G with no outer whitespace and no newline
\* and each prefix P in {handoff, /handoff} in any letter case,
\* isHandoffTrigger(P + " " + G) is true and extractGoal(P + " " + G) is G
\* with its casing preserved.
C15_RoundTrip ==
  \A P \in TriggerWords, G \in Goals :
    message = P \o " " \o G =>
      /\ isDefined(recognized) => valueOf(recognized) = TRUE
      /\ isDefined(extracted) => valueOf(extracted) = defined(G)

\* C15 witness: both parsers have run on an upper-case prefix and a goal of
\* mixed case
C15_Witness ==
  /\ message = "/Handoff Create PR"
  /\ recognized = defined(TRUE)
  /\ extracted = defined(defined("Create PR"))

\* C16: extractGoal returns null, never an empty or whitespace-only string,
\* for a bare trigger word with or without surrounding whitespace, a
\* trigger word followed only by whitespace, session handoff, and any
\* message that does not start with handoff or /handoff; every non-null
\* result is non-empty and has no leading or trailing whitespace.
C16_NoGoal ==
  isDefined(extracted) =>
    LET goal == valueOf(extracted)
    IN /\ message \in BareTriggers => goal = null
       /\ message \in OtherMessages => goal = null
       /\ goal # null =>
            /\ Len(goal[1]) > 0
            /\ charAt(goal[1], 1) \notin whitespace
            /\ charAt(goal[1], Len(goal[1])) \notin whitespace
            /\ message \in GoalMessages

\* C16 witness: the extractor has returned null for a trigger word followed
\* only by whitespace
C16_Witness ==
  /\ message = "handoff  "
  /\ extracted = defined(null)

(***************************************************************************)
(* The tools session_handoff and read_session.                             *)
(***************************************************************************)
\* pluginCtx.directory
Directory == "/repo"

\* a value interpolated into a template literal
templateString(o) == IF isDefined(o) THEN valueOf(o) ELSE "undefined"

\* the truthiness of an optional string
truthyOptional(o) == isDefined(o) /\ truthy(valueOf(o))

\* the characters U+2713 and U+00B7 of the success message
checkMark == "\\u2713"
middleDot == "\\u00b7"

\* a promise of the client that rejected with an error of message e
rejected(e) == [ok |-> FALSE, data |-> undefined, error |-> e]
\* a promise of the client that fulfilled with { data: d }
fulfilled(d) == [ok |-> TRUE, data |-> d, error |-> ""]

\* an entry of the log of client calls
event(tool, kind, op, payload) ==
  [tool |-> tool, kind |-> kind, op |-> op, payload |-> payload]

\* src/index.ts:47-148: the Detailed formatter of index.ts, one growing list
Index_buildHandoffPrompt(args) ==
  LET lines0 == <<"## Handoff Continuation Prompt", "", "### Task",
                  IF truthy(args.task) THEN args.task
                  ELSE "Continue previous work">>
      lines1 == IF truthy(args.blocked) /\ args.blocked # "none"
                THEN lines0 \o <<"", "### Blocked", args.blocked>>
                ELSE lines0
      todos == IF isDefined(args.todos) THEN valueOf(args.todos) ELSE <<>>
      completed == Len(SelectSeq(todos, todoIsCompleted))
      inProgress == SelectSeq(todos, todoIsInProgress)
      pending == SelectSeq(todos, todoIsPending)
      lines2a == IF Len(todos) > 0
                 THEN lines1 \o <<"", "### Todos",
                                  numberToString(completed) \o "/"
                                    \o numberToString(Len(todos)) \o " complete">>
                 ELSE lines1
      lines2b == IF Len(todos) > 0 /\ Len(inProgress) > 0
                 THEN Append(lines2a, "In progress: "
                               \o join([k \in 1..Len(inProgress) |->
                                          inProgress[k].content], ", "))
                 ELSE lines2a
      lines2 == IF Len(todos) > 0 /\ Len(pending) > 0
                THEN Append(lines2b, "Pending: "
                              \o join([k \in 1..Len(pending) |->
                                         pending[k].content], ", "))
                ELSE lines2b
      hasFiles == Len(args.modified_files) > 0 \/ Len(args.reference_files) > 0
      lines3a == IF hasFiles THEN lines2 \o <<"", "### Files">> ELSE lines2
      lines3b == IF hasFiles /\ Len(args.modified_files) > 0
                 THEN Append(lines3a, "Modified: " \o join(args.modified_files, ", "))
                 ELSE lines3a
      lines3 == IF hasFiles /\ Len(args.reference_files) > 0
                THEN Append(lines3b, "Reference: " \o join(args.reference_files, ", "))
                ELSE lines3b
      lines4 == IF Len(args.decisions) > 0
                THEN lines3 \o <<"", "### Decisions Made">>
                       \o [k \in 1..Len(args.decisions) |->
                             "- " \o args.decisions[k].decision \o ": "
                               \o args.decisions[k].reason]
                ELSE lines3
      lines5 == IF Len(args.tried_failed) > 0
                THEN lines4 \o <<"", "### Tried & Failed">>
                       \o [k \in 1..Len(args.tried_failed) |->
                             "- " \o args.tried_failed[k].approach \o ": "
                               \o args.tried_failed[k].why_failed]
                ELSE lines4
      lines6 == IF Len(args.next_steps) > 0
                THEN lines5 \o <<"", "### Next Steps">>
                       \o [k \in 1..Len(args.next_steps) |->
                             numberToString(k) \o ". " \o args.next_steps[k]]
                ELSE lines5
      lines7 == IF Len(args.user_prefs) > 0
                THEN lines6 \o <<"", "### User Preferences">>
                       \o [k \in 1..Len(args.user_prefs) |->
                             "- " \o args.user_prefs[k]]
                ELSE lines6
      lines8 == lines7 \o <<"", "---",
                  "Continuing from session " \o backtick \o args.previousSessionId
                    \o backtick \o ". Use " \o backtick \o "read_session"
                    \o backtick \o " tool if you need additional context.">>
  IN join(lines8, "\n")

\* (m) => m.role === "assistant"
isAssistant(m) == m.role = "assistant"

\* variant: the first assistant message is taken instead of the last
lastAssistant_first(data) ==
  LET assistantMessages == SelectSeq(data, isAssistant)
  IN IF Len(assistantMessages) = 0 THEN undefined
     ELSE defined(assistantMessages[1])

\* assistantMessages[assistantMessages.length - 1]
lastAssistant(data) ==
  LET assistantMessages == SelectSeq(data, isAssistant)
  IN IF Len(assistantMessages) = 0 THEN undefined
     ELSE defined(assistantMessages[Len(assistantMessages)])

\* src/unnamed/part_003:167-178 (src/index.ts:191-199 inline)
extractModelFromMessage(msg) ==
  IF ~isDefined(msg) THEN [modelConfig |-> undefined, agent |-> undefined]
  ELSE LET m == valueOf(msg)
       IN [modelConfig |->
             IF truthyOptional(m.providerID) /\ truthyOptional(m.modelID)
             THEN defined([providerID |-> valueOf(m.providerID),
                           modelID |-> valueOf(m.modelID)])
             ELSE undefined,
           agent |-> IF truthyOptional(m.mode) THEN m.mode ELSE undefined]

\* src/unnamed/part_003:154-165
fetchSessionTitle(resp) ==
  IF resp.ok /\ isDefined(resp.data) /\ truthyOptional(valueOf(resp.data).title)
  THEN valueOf(valueOf(resp.data).title)
  ELSE "Unknown"

\* src/unnamed/part_003:180-193
fetchModelConfig(resp) ==
  IF resp.ok /\ isDefined(resp.data)
  THEN extractModelFromMessage(lastAssistant(valueOf(resp.data)))
  ELSE [modelConfig |-> undefined, agent |-> undefined]

\* src/unnamed/part_003:195-206
fetchTodos(resp) ==
  IF resp.ok /\ isDefined(resp.data) THEN valueOf(resp.data) ELSE <<>>

\* src/index.ts:169-179: the locals after session.get settled
Index_afterGet(l, resp) ==
  IF resp.ok /\ isDefined(resp.data)
       /\ truthyOptional(valueOf(resp.data).title)
  THEN [l EXCEPT !.previousTitle = valueOf(valueOf(resp.data).title)]
  ELSE l

\* src/unnamed/part_003:212-217: the context after fetchSessionTitle resolved
Gather_afterGet(l, resp) ==
  [l EXCEPT !.previousTitle = fetchSessionTitle(resp)]

\* the locals after session.get settled
afterGet(l, resp) ==
  IF variant = "index" THEN Index_afterGet(l, resp) ELSE Gather_afterGet(l, resp)

\* variant: a failed message fetch resets what was gathered before it
Index_afterMessages_discarding(l, resp) ==
  IF resp.ok /\ isDefined(resp.data)
  THEN LET last == extractModelFromMessage(lastAssistant(valueOf(resp.data)))
       IN [l EXCEPT !.modelConfig = last.modelConfig, !.agent = last.agent]
  ELSE localDefaults

\* src/index.ts:181-203: the locals after session.messages settled
Index_afterMessages(l, resp) ==
  IF resp.ok /\ isDefined(resp.data)
  THEN LET last == lastAssistant(valueOf(resp.data))
           both == /\ isDefined(last)
                   /\ truthyOptional(valueOf(last).providerID)
                   /\ truthyOptional(valueOf(last).modelID)
           mode == isDefined(last) /\ truthyOptional(valueOf(last).mode)
       IN [l EXCEPT
             !.modelConfig =
                IF both
                THEN defined([providerID |-> valueOf(valueOf(last).providerID),
                              modelID |-> valueOf(valueOf(last).modelID)])
                ELSE @,
             !.agent = IF mode THEN valueOf(last).mode ELSE @]
  ELSE l

\* src/unnamed/part_003:212-219: the context after fetchModelConfig resolved
Gather_afterMessages(l, resp) ==
  LET modelResult == fetchModelConfig(resp)
  IN [l EXCEPT
        !.modelConfig = IF isDefined(modelResult.modelConfig)
                        THEN modelResult.modelConfig ELSE @,
        !.agent = IF truthyOptional(modelResult.agent)
                  THEN modelResult.agent ELSE @]

\* the locals after session.messages settled
afterMessages(l, resp) ==
  IF variant = "index" THEN Index_afterMessages(l, resp)
  ELSE Gather_afterMessages(l, resp)

\* src/index.ts:205-215: the locals after session.todo settled
Index_afterTodo(l, resp) ==
  IF resp.ok /\ isDefined(resp.data)
  THEN [l EXCEPT !.todos = resp.data]
  ELSE l

\* src/unnamed/part_003:212-217: the context after fetchTodos resolved
Gather_afterTodo(l, resp) ==
  [l EXCEPT !.todos = defined(fetchTodos(resp))]

\* the locals after session.todo settled
afterTodo(l, resp) ==
  IF variant = "index" THEN Index_afterTodo(l, resp) ELSE Gather_afterTodo(l, resp)

\* the record given to the formatter (src/index.ts:218-229,
\* src/unnamed/part_003:240-251)
promptArgs(l) ==
  [previousSessionId |-> templateString(ctxSessionID),
   task |-> l.previousTitle,
   blocked |-> "",
   modified_files |-> <<>>,
   reference_files |-> <<>>,
   decisions |-> <<>>,
   tried_failed |-> <<>>,
   next_steps |-> <<>>,
   user_prefs |-> <<>>,
   todos |-> IF variant = "index" THEN l.todos
             ELSE IF Len(valueOf(l.todos)) > 0 THEN l.todos ELSE undefined]

\* the call of a fetch of the session context
fetchCall(op) ==
  event("session_handoff", "call", op,
        [id |-> valueOf(ctxSessionID), directory |-> Directory])

\* src/index.ts:218-236, src/unnamed/part_003:240-257: format the prompt,
\* name the new session and call session.create
IssueCreate(l, log) ==
  LET handoffPrompt == IF variant = "index"
                       THEN Index_buildHandoffPrompt(promptArgs(l))
                       ELSE buildHandoffPrompt(promptArgs(l))
      newTitle == "Handoff: " \o l.previousTitle
  IN /\ pc' = "create"
     /\ local' = [l EXCEPT !.handoffPrompt = handoffPrompt, !.newTitle = newTitle]
     /\ inflight' = {}
     /\ calls' = Append(log, event("session_handoff", "call", "session.create",
                                   [directory |-> Directory, title |-> newTitle]))

\* variant: the parallel gather does not wait for the other fetches
AfterFetch_noWait(op, l, log) ==
  IF variant = "index" /\ op # "session.todo"
  THEN LET following == IF op = "session.get" THEN "session.messages"
                        ELSE "session.todo"
       IN /\ pc' = "gather"
          /\ local' = l
          /\ inflight' = {following}
          /\ calls' = Append(log, fetchCall(following))
  ELSE IssueCreate(l, log)

\* what execute does once the fetch op has settled
AfterFetch(op, l, log) ==
  IF variant = "index" /\ op # "session.todo"
  THEN \* src/index.ts:181, 205: the next fetch is issued
       LET following == IF op = "session.get" THEN "session.messages"
                        ELSE "session.todo"
       IN /\ pc' = "gather"
          /\ local' = l
          /\ inflight' = {following}
          /\ calls' = Append(log, fetchCall(following))
  ELSE IF inflight \ {op} # {}
  THEN \* src/unnamed/part_003:212: Promise.all waits for the others
       /\ pc' = "gather"
       /\ local' = l
       /\ inflight' = inflight \ {op}
       /\ calls' = log
  ELSE IssueCreate(l, log)

\* variant: the picker is opened before the prompt is sent
IssuePrompt_openFirst(l, log) ==
  /\ pc' = "prompt"
  /\ local' = l
  /\ calls' = log \o
       <<event("session_handoff", "call", "tui.openSessions",
               [directory |-> Directory]),
         event("session_handoff", "call", "session.promptAsync",
               [id |-> valueOf(l.sessionId), directory |-> Directory,
                model |-> l.modelConfig, agent |-> l.agent,
                parts |-> <<[type |-> "text", text |-> l.handoffPrompt]>>])>>

\* src/index.ts:243-251, src/unnamed/part_003:262-270: call promptAsync
IssuePrompt(l, log) ==
  /\ pc' = "prompt"
  /\ local' = l
  /\ calls' = Append(log,
       event("session_handoff", "call", "session.promptAsync",
             [id |-> valueOf(l.sessionId), directory |-> Directory,
              model |-> l.modelConfig, agent |-> l.agent,
              parts |-> <<[type |-> "text", text |-> l.handoffPrompt]>>]))

\* src/index.ts:257, src/unnamed/part_003:274-277: the success message
successMessage(l) ==
  checkMark \o " Session \"" \o l.newTitle \o "\" created ("
    \o (IF truthyOptional(l.agent) THEN valueOf(l.agent) ELSE "default")
    \o " " \o middleDot \o " "
    \o (IF isDefined(l.modelConfig)
        THEN valueOf(l.modelConfig).providerID \o "/"
               \o valueOf(l.modelConfig).modelID
        ELSE "default model")
    \o "). Select it from the picker."

\* execute returned v
returned(v) == defined([threw |-> FALSE, value |-> v])
\* execute rejected with the error e of a client call
threw(e) == defined([threw |-> TRUE, value |-> e])

(***************************************************************************)
(* read_session (src/index.ts:262-304, src/unnamed/part_003:282-324).      *)
(***************************************************************************)
\* messagesResult.data.slice(-20)
ReadSessionMessages == 20
\* content.slice(0, 2000)
ReadSessionChars == 2000

\* variant: the first n messages are kept instead of the last n
sliceLast_first(arr, n) ==
  IF Len(arr) <= n THEN arr ELSE SubSeq(arr, 1, n)

\* Array.prototype.slice(-n)
sliceLast(arr, n) ==
  IF Len(arr) <= n THEN arr ELSE SubSeq(arr, Len(arr) - n + 1, Len(arr))

\* String.prototype.slice(0, n)
sliceFirst(s, n) == IF Len(s) <= n THEN s ELSE SubSeq(s, 1, n)

\* (p) => p.type === "text"
isTextPart(p) == p.type = "text"

\* src/index.ts:287-295: one message of the history as text
formatMessage(msg) ==
  LET role == IF truthy(msg.role) THEN msg.role ELSE "unknown"
      textParts == IF isDefined(msg.parts)
                   THEN SelectSeq(valueOf(msg.parts), isTextPart) ELSE <<>>
      joined == join([k \in 1..Len(textParts) |->
                        IF truthyOptional(textParts[k].text)
                        THEN valueOf(textParts[k].text) ELSE ""], "\n")
      content == IF isDefined(msg.parts) /\ truthy(joined) THEN joined
                 ELSE "[no text content]"
  IN "[" \o role \o "]: " \o sliceFirst(content, ReadSessionChars)
       \o (IF Len(content) > ReadSessionChars THEN "..." ELSE "")

\* src/index.ts:282-301: the value read_session returns for a response
readSessionResult(resp) ==
  IF ~resp.ok THEN "Failed to read session: " \o resp.error
  ELSE IF ~isDefined(resp.data) THEN "No messages found"
  ELSE LET messages == sliceLast(valueOf(resp.data), ReadSessionMessages)
           texts == [k \in 1..Len(messages) |-> formatMessage(messages[k])]
       IN "Messages (last " \o numberToString(Len(messages)) \o "):\n\n"
            \o join(texts, "\n\n---\n\n")

(***************************************************************************)
(* The answers of the client.                                              *)
(***************************************************************************)
\* s repeated n times
RECURSIVE repeat(_, _)
repeat(s, n) ==
  IF n = 0 THEN ""
  ELSE LET half == repeat(s, n \div 2)
       IN half \o half \o (IF n % 2 = 1 THEN s ELSE "")

textPart(t) == [type |-> "text", text |-> defined(t)]

userMessage(t) ==
  [role |-> "user", providerID |-> undefined, modelID |-> undefined,
   mode |-> undefined, parts |-> defined(<<textPart(t)>>)]

assistantMessage(providerID, modelID, mode, t) ==
  [role |-> "assistant", providerID |-> providerID, modelID |-> modelID,
   mode |-> mode, parts |-> defined(<<textPart(t)>>)]

Histories ==
  {<<>>,
   <<userMessage("hello")>>,
   <<assistantMessage(defined("anthropic"), defined("claude-sonnet"),
                      defined("build"), "Done")>>,
   <<assistantMessage(defined("anthropic"), defined("claude-sonnet"),
                      defined("build"), "Done"),
     userMessage("next"),
     assistantMessage(defined("openai"), undefined, defined("plan"), "Ok")>>,
   <<assistantMessage(defined("openai"), defined("gpt"), undefined, "Ok"),
     userMessage("thanks")>>,
   <<assistantMessage(defined(""), defined("gpt"), defined(""), "Ok")>>,
   <<[role |-> "", providerID |-> undefined, modelID |-> undefined,
      mode |-> undefined, parts |-> undefined],
     [role |-> "assistant", providerID |-> undefined, modelID |-> undefined,
      mode |-> undefined,
      parts |-> defined(<<[type |-> "tool", text |-> defined("ls")],
                          [type |-> "text", text |-> undefined],
                          textPart("a"), textPart("b")>>)]>>,
   <<userMessage(repeat("x", ReadSessionChars)),
     userMessage(repeat("y", ReadSessionChars + 1))>>,
   [k \in 1..ReadSessionMessages |-> userMessage("m" \o ToString(k))],
   [k \in 1..(ReadSessionMessages + 1) |-> userMessage("m" \o ToString(k))]}

GetResponses ==
  {rejected("boom"), fulfilled(undefined),
   fulfilled(defined([title |-> undefined])),
   fulfilled(defined([title |-> defined("")])),
   fulfilled(defined([title |-> defined("Fix login")]))}

MessagesResponses ==
  {rejected("boom"), fulfilled(undefined)}
    \cup {fulfilled(defined(h)) : h \in Histories}

TodoResponses ==
  {rejected("boom"), fulfilled(undefined), fulfilled(defined(<<>>)),
   fulfilled(defined(<<[content |-> "Task 1", status |-> "completed"],
                       [content |-> "Task 2", status |-> "in_progress"],
                       [content |-> "Task 3", status |-> "pending"]>>)),
   fulfilled(defined(<<[content |-> "Task 4", status |-> "cancelled"]>>))}

CreateResponses ==
  {rejected("boom"), fulfilled(undefined),
   fulfilled(defined([id |-> undefined])),
   fulfilled(defined([id |-> defined("")])),
   fulfilled(defined([id |-> defined("ses_new")]))}

VoidResponses == {rejected("boom"), fulfilled(undefined)}

\* the arguments the assistant passes, as the README names them
ToolArgs ==
  {[summary |-> "Refactored auth module", next_steps |-> <<"Write tests">>,
    blocked |-> "API down",
    key_decisions |-> <<[decision |-> "Use JWT", reason |-> "Stateless"]>>,
    files_modified |-> <<"src/auth.ts">>],
   [summary |-> "Fix login", next_steps |-> <<>>, blocked |-> "",
    key_decisions |-> <<>>, files_modified |-> <<>>]}

(***************************************************************************)
(* The state machine of the tools: one call of session_handoff, then one   *)
(* call of read_session in the session it created.                         *)
(***************************************************************************)
InitHandoff ==
  /\ input = Base
  /\ fmt = "none"
  /\ out = ""
  /\ TriggerIdle
  /\ UpdateIdle
  /\ variant \in {"index", "part_003"}
  /\ ctxSessionID \in {undefined, defined(""), defined("ses_123")}
  /\ toolArgs \in {defined(a) : a \in ToolArgs}
  /\ pc = "idle"
  /\ local = localDefaults
  /\ inflight = {}
  /\ calls = <<>>
  /\ result = undefined
  /\ rsSessionID = undefined
  /\ rsPc = "idle"
  /\ rsResult = undefined

\* execute of session_handoff up to its first await
\* (src/index.ts:162-170, src/unnamed/part_003:235-238, 208-216)
HandoffExecute ==
  /\ pc = "idle"
  /\ LET l == [localDefaults EXCEPT
                 !.todos = IF variant = "index" THEN undefined
                           ELSE defined(<<>>)]
     IN IF truthyOptional(ctxSessionID)
        THEN /\ pc' = "gather"
             /\ local' = l
             /\ inflight' = IF variant = "index" THEN {"session.get"}
                            ELSE {"session.get", "session.messages",
                                  "session.todo"}
             /\ calls' = calls \o
                  (IF variant = "index" THEN <<fetchCall("session.get")>>
                   ELSE <<fetchCall("session.get"),
                          fetchCall("session.messages"),
                          fetchCall("session.todo")>>)
        ELSE IssueCreate(l, calls)
  /\ UNCHANGED <<updateVars, formatVars, triggerVars, variant, ctxSessionID, toolArgs,
                 result, readVars>>

\* client.session.get settles
SessionGetSettles ==
  /\ pc = "gather"
  /\ "session.get" \in inflight
  /\ \E resp \in GetResponses :
       AfterFetch("session.get", afterGet(local, resp),
                  Append(calls, event("session_handoff", "settle",
                                      "session.get", resp)))
  /\ UNCHANGED <<updateVars, formatVars, triggerVars, variant, ctxSessionID, toolArgs,
                 result, readVars>>

\* client.session.messages settles
SessionMessagesSettles ==
  /\ pc = "gather"
  /\ "session.messages" \in inflight
  /\ \E resp \in MessagesResponses :
       AfterFetch("session.messages", afterMessages(local, resp),
                  Append(calls, event("session_handoff", "settle",
                                      "session.messages", resp)))
  /\ UNCHANGED <<updateVars, formatVars, triggerVars, variant, ctxSessionID, toolArgs,
                 result, readVars>>

\* client.session.todo settles
SessionTodoSettles ==
  /\ pc = "gather"
  /\ "session.todo" \in inflight
  /\ \E resp \in TodoResponses :
       AfterFetch("session.todo", afterTodo(local, resp),
                  Append(calls, event("session_handoff", "settle",
                                      "session.todo", resp)))
  /\ UNCHANGED <<updateVars, formatVars, triggerVars, variant, ctxSessionID, toolArgs,
                 result, readVars>>

\* variant: the prompt is sent even when session.create returned no id
SessionCreateSettles_noGuard ==
  /\ pc = "create"
  /\ \E resp \in CreateResponses :
       LET log == Append(calls, event("session_handoff", "settle",
                                      "session.create", resp))
           sessionId == IF resp.ok /\ isDefined(resp.data)
                        THEN valueOf(resp.data).id ELSE undefined
       IN IF ~resp.ok
          THEN /\ pc' = "done"
               /\ result' = threw(resp.error)
               /\ calls' = log
               /\ UNCHANGED local
          ELSE /\ IssuePrompt([local EXCEPT
                                !.sessionId = defined(templateString(sessionId))],
                             log)
               /\ UNCHANGED result
  /\ UNCHANGED <<updateVars, formatVars, triggerVars, variant, ctxSessionID, toolArgs,
                 inflight, readVars>>

\* client.session.create settles (src/index.ts:233-251,
\* src/unnamed/part_003:254-270)
SessionCreateSettles ==
  /\ pc = "create"
  /\ \E resp \in CreateResponses :
       LET log == Append(calls, event("session_handoff", "settle",
                                      "session.create", resp))
           sessionId == IF resp.ok /\ isDefined(resp.data)
                        THEN valueOf(resp.data).id ELSE undefined
       IN IF ~resp.ok
          THEN /\ pc' = "done"
               /\ result' = threw(resp.error)
               /\ calls' = log
               /\ UNCHANGED local
          ELSE IF ~truthyOptional(sessionId)
          THEN /\ pc' = "done"
               /\ result' = returned("Failed to create session")
               /\ calls' = log
               /\ UNCHANGED local
          ELSE /\ IssuePrompt([local EXCEPT !.sessionId = sessionId], log)
               /\ UNCHANGED result
  /\ UNCHANGED <<updateVars, formatVars, triggerVars, variant, ctxSessionID, toolArgs,
                 inflight, readVars>>

\* client.session.promptAsync settles (src/index.ts:243-255,
\* src/unnamed/part_003:262-272)
PromptAsyncSettles ==
  /\ pc = "prompt"
  /\ \E resp \in VoidResponses :
       LET log == Append(calls, event("session_handoff", "settle",
                                      "session.promptAsync", resp))
       IN IF ~resp.ok
          THEN /\ pc' = "done"
               /\ result' = threw(resp.error)
               /\ calls' = log
          ELSE /\ pc' = "open"
               /\ calls' = Append(log, event("session_handoff", "call",
                                             "tui.openSessions",
                                             [directory |-> Directory]))
               /\ UNCHANGED result
  /\ UNCHANGED <<updateVars, formatVars, triggerVars, variant, ctxSessionID, toolArgs,
                 local, inflight, readVars>>

\* client.tui.openSessions settles (src/index.ts:253-257,
\* src/unnamed/part_003:272-277)
OpenSessionsSettles ==
  /\ pc = "open"
  /\ \E resp \in VoidResponses :
       /\ calls' = Append(calls, event("session_handoff", "settle",
                                       "tui.openSessions", resp))
       /\ result' = IF resp.ok THEN returned(successMessage(local))
                    ELSE threw(resp.error)
  /\ pc' = "done"
  /\ UNCHANGED <<updateVars, formatVars, triggerVars, variant, ctxSessionID, toolArgs,
                 local, inflight, readVars>>

\* session_handoff returned its success message
HandoffSucceeded ==
  /\ pc = "done"
  /\ isDefined(result)
  /\ ~valueOf(result).threw
  /\ valueOf(result).value # "Failed to create session"

\* execute of read_session, called in the session that session_handoff created
\* or without a session id, up to its await (src/index.ts:271-280)
ReadSessionExecute ==
  /\ HandoffSucceeded
  /\ rsPc = "idle"
  /\ \E sid \in {undefined, local.sessionId} :
       /\ rsSessionID' = sid
       /\ IF ~truthyOptional(sid)
          THEN /\ rsPc' = "done"
               /\ rsResult' = defined("No session ID available")
               /\ UNCHANGED calls
          ELSE /\ rsPc' = "messages"
               /\ calls' = Append(calls,
                    event("read_session", "call", "session.messages",
                          [id |-> valueOf(sid), directory |-> Directory]))
               /\ UNCHANGED rsResult
  /\ UNCHANGED <<updateVars, formatVars, triggerVars, handoffVars>>

\* client.session.messages settles for read_session (src/index.ts:277-301)
ReadSessionSettles ==
  /\ rsPc = "messages"
  /\ \E resp \in MessagesResponses :
       /\ calls' = Append(calls, event("read_session", "settle",
                                       "session.messages", resp))
       /\ rsResult' = defined(readSessionResult(resp))
  /\ rsPc' = "done"
  /\ UNCHANGED <<updateVars, formatVars, triggerVars, handoffVars, rsSessionID>>

NextHandoff ==
  \/ HandoffExecute
  \/ SessionGetSettles
  \/ SessionMessagesSettles
  \/ SessionTodoSettles
  \/ SessionCreateSettles
  \/ PromptAsyncSettles
  \/ OpenSessionsSettles
  \/ ReadSessionExecute
  \/ ReadSessionSettles

SpecHandoff == InitHandoff /\ [][NextHandoff]_vars

ToolTypeOK ==
  /\ pc \in {"idle", "gather", "create", "prompt", "open", "done"}
  /\ rsPc \in {"idle", "messages", "done"}
  /\ inflight \subseteq {"session.get", "session.messages", "session.todo"}
  /\ (pc = "done") = isDefined(result)
  /\ (rsPc = "done") = isDefined(rsResult)

(***************************************************************************)
(* Reading the log of client calls.                                        *)
(***************************************************************************)
\* the positions in the log of session_handoff's entries of a kind for op
handoffAt(kind, op) ==
  {i \in 1..Len(calls) : /\ calls[i].tool = "session_handoff"
                         /\ calls[i].kind = kind
                         /\ calls[i].op = op}

\* the positions in the log of the calls read_session issued
readSessionCalls ==
  {i \in 1..Len(calls) : calls[i].tool = "read_session" /\ calls[i].kind = "call"}

\* the answer session_handoff received for op; a rejection when it has none
answerTo(op) ==
  LET at == handoffAt("settle", op)
  IN IF at = {} THEN rejected("") ELSE calls[CHOOSE i \in at : TRUE].payload

\* the title of the previous session as the client delivered it
previousTitleDelivered ==
  LET r == answerTo("session.get")
  IN IF r.ok /\ r.data # undefined /\ r.data[1].title \notin {undefined, defined("")}
     THEN r.data[1].title[1]
     ELSE "Unknown"

\* the handoff document for the title and the todo list the client delivered
documentDelivered ==
  LET r == answerTo("session.todo")
  IN buildHandoffPrompt(
       [previousSessionId |-> IF ctxSessionID = undefined THEN "undefined"
                              ELSE ctxSessionID[1],
        task |-> previousTitleDelivered,
        blocked |-> "",
        modified_files |-> <<>>, reference_files |-> <<>>,
        decisions |-> <<>>, tried_failed |-> <<>>,
        next_steps |-> <<>>, user_prefs |-> <<>>,
        todos |-> IF r.ok THEN r.data ELSE undefined])

\* C17: a successful session_handoff run performs, each exactly once and in
\* this order, session.create with title "Handoff: <previous title>",
\* session.promptAsync addressed to the id that create returned with a single
\* text part equal to the formatted handoff document, and tui.openSessions;
\* promptAsync is never issued before create has returned an id and the
\* picker is never opened before promptAsync has completed.
C17_Order ==
  LET creates == handoffAt("call", "session.create")
      created == handoffAt("settle", "session.create")
      prompts == handoffAt("call", "session.promptAsync")
      prompted == handoffAt("settle", "session.promptAsync")
      opens == handoffAt("call", "tui.openSessions")
  IN /\ \A p \in prompts :
          \E c \in created :
            /\ c < p
            /\ calls[c].payload.ok
            /\ calls[c].payload.data # undefined
            /\ calls[c].payload.data[1].id = <<calls[p].payload.id>>
            /\ calls[p].payload.id # ""
     /\ \A o \in opens :
          \E p \in prompted : p < o /\ calls[p].payload.ok
     /\ HandoffSucceeded =>
          /\ Cardinality(creates) = 1
          /\ Cardinality(prompts) = 1
          /\ Cardinality(opens) = 1
          /\ \A c \in creates, p \in prompts, o \in opens :
               /\ c < p
               /\ p < o
               /\ calls[c].payload.title = "Handoff: " \o previousTitleDelivered
               /\ calls[p].payload.parts =
                    <<[type |-> "text", text |-> documentDelivered]>>

\* C17 witness: a run of the parallel variant that fetched a title and a todo
\* list has returned its success message
C17_Witness ==
  /\ HandoffSucceeded
  /\ variant = "part_003"
  /\ previousTitleDelivered = "Fix login"
  /\ Contains(documentDelivered, "### Todos")
  /\ Len(calls) = 12

\* C18 as stated: the prompt delivered to the new session contains the
\* summary the assistant passed and the optional items it provided.
C18_AsStated ==
  \A p \in handoffAt("call", "session.promptAsync") :
    LET text == calls[p].payload.parts[1].text
        given == valueOf(toolArgs)
    IN /\ Contains(text, given.summary)
       /\ given.blocked # "" => Contains(text, given.blocked)
       /\ \A k \in 1..Len(given.next_steps) :
            Contains(text, given.next_steps[k])
       /\ \A k \in 1..Len(given.key_decisions) :
            Contains(text, given.key_decisions[k].decision)
       /\ \A k \in 1..Len(given.files_modified) :
            Contains(text, given.files_modified[k])

\* C19 as stated: read_session, called in the session that session_handoff
\* created, reads the messages of the previous session, the one whose id the
\* footer of the handoff document names.
C19_AsStated ==
  \A r \in readSessionCalls :
    LET ls == Lines(local.handoffPrompt)
    IN truthyOptional(ctxSessionID) =>
       /\ calls[r].payload.id = valueOf(ctxSessionID)
       /\ Contains(ls[Len(ls)],
                   "session " \o backtick \o calls[r].payload.id \o backtick)

\* C20 as stated: on success the value session_handoff returns identifies
\* the session that session.create created.
C20_AsStated ==
  HandoffSucceeded =>
    \A c \in handoffAt("settle", "session.create") :
      Contains(valueOf(result).value, calls[c].payload.data[1].id[1])

\* the last message of role assistant in the history the client delivered to
\* session_handoff, as a sequence of at most one message
lastAssistantDelivered ==
  LET r == answerTo("session.messages")
      h == IF r.ok /\ r.data # undefined THEN r.data[1] ELSE <<>>
      at == {i \in 1..Len(h) : h[i].role = "assistant"}
  IN IF at = {} THEN <<>>
     ELSE <<h[CHOOSE i \in at : \A j \in at : j <= i]>>

\* C21: the prompt sent by session_handoff carries the providerID/modelID and
\* the mode of the last assistant-role message of the previous session; the
\* model is passed only when that message has both providerID and modelID,
\* the agent only when it has a mode, and otherwise the field is left unset.
C21_ModelAndAgent ==
  \A p \in handoffAt("call", "session.promptAsync") :
    LET body == calls[p].payload
        m == lastAssistantDelivered
        hasModel == /\ m # <<>>
                    /\ m[1].providerID \notin {<<>>, <<"">>}
                    /\ m[1].modelID \notin {<<>>, <<"">>}
        hasMode == m # <<>> /\ m[1].mode \notin {<<>>, <<"">>}
    IN /\ hasModel => body.model = <<[providerID |-> m[1].providerID[1],
                                      modelID |-> m[1].modelID[1]]>>
       /\ ~hasModel => body.model = <<>>
       /\ hasMode => body.agent = m[1].mode
       /\ ~hasMode => body.agent = <<>>

\* C21 witness: the prompt was sent for a history whose last assistant message
\* has a mode and a providerID but no modelID, after an earlier assistant
\* message that had all three
C21_Witness ==
  /\ pc = "prompt"
  /\ answerTo("session.messages").ok
  /\ answerTo("session.messages").data # undefined
  /\ Len(answerTo("session.messages").data[1]) = 3
  /\ local.agent = <<"plan">>
  /\ local.modelConfig = <<>>

\* the positions in the log of the answers read_session received
readSessionAnswers ==
  {i \in 1..Len(calls) : calls[i].tool = "read_session" /\ calls[i].kind = "settle"}

\* the message has exactly one part, a text part with a non-empty text
hasOneText(m) ==
  /\ m.parts # <<>>
  /\ Len(m.parts[1]) = 1
  /\ m.parts[1][1].type = "text"
  /\ m.parts[1][1].text \notin {<<>>, <<"">>}

\* the text of a message that has one text part
textOf(m) == m.parts[1][1].text[1]

\* C24: read_session returns at most the last 20 messages of the fetched
\* history, in their original order (all of them when there are 20 or
\* fewer); each message's text is cut to its first 2000 characters, with the
\* marker "..." appended if and only if the text is longer than 2000
\* characters.
C24_Truncation ==
  \A a \in readSessionAnswers :
    (calls[a].payload.ok /\ calls[a].payload.data # <<>>) =>
      LET h == calls[a].payload.data[1]
          n == IF Len(h) <= 20 THEN Len(h) ELSE 20
          kept == [k \in 1..n |-> h[Len(h) - n + k]]
          text == rsResult[1]
          shown(m) == "[" \o m.role \o "]: "
                        \o (IF Len(textOf(m)) > 2000
                            THEN SubSeq(textOf(m), 1, 2000) \o "..."
                            ELSE textOf(m))
      IN /\ StartsWith(text, "Messages (last " \o ToString(n) \o "):\n\n")
         /\ n > 0 => Occurrences(text, "\n\n---\n\n") = n - 1
         /\ n <= 20
         /\ (\A k \in 1..Len(h) : hasOneText(h[k]) /\ h[k].role # "") =>
              /\ text = "Messages (last " \o ToString(n) \o "):\n\n"
                          \o joinedBy([k \in 1..n |-> shown(kept[k])],
                                      "\n\n---\n\n")
              /\ Contains(text, "...") =
                   (\E k \in 1..n : Len(textOf(kept[k])) > 2000)
              /\ \A k \in 1..n : Len(textOf(kept[k])) <= 2000 =>
                   Contains(text, "]: " \o textOf(kept[k]))

\* C24 witness: read_session has returned a history of 21 messages, of which
\* the first is dropped
C24_Witness ==
  /\ rsPc = "done"
  /\ \E a \in readSessionAnswers :
       /\ calls[a].payload.ok
       /\ calls[a].payload.data # <<>>
       /\ Len(calls[a].payload.data[1]) = 21
  /\ StartsWith(rsResult[1], "Messages (last 20):\n\n[user]: m2\n\n---\n\n[user]: m3\n")

\* the ids that session.create returned to this run
createdIds ==
  {calls[c].payload.data[1].id[1] :
     c \in {i \in handoffAt("settle", "session.create") :
              /\ calls[i].payload.ok
              /\ calls[i].payload.data # <<>>
              /\ calls[i].payload.data[1].id \notin {<<>>, <<"">>}}}

\* C25: if session.create returns no session id, session_handoff returns the
\* text "Failed to create session" and issues neither session.promptAsync nor
\* tui.openSessions; no prompt is ever sent to, and the picker is never opened
\* for, a session that was not created by this run.
C25_NoSession ==
  /\ \A c \in handoffAt("settle", "session.create") :
       (calls[c].payload.ok /\ createdIds = {}) =>
         /\ pc = "done"
         /\ result = <<[threw |-> FALSE, value |-> "Failed to create session"]>>
         /\ handoffAt("call", "session.promptAsync") = {}
         /\ handoffAt("call", "tui.openSessions") = {}
         /\ Len(calls) = c
  /\ \A p \in handoffAt("call", "session.promptAsync") :
       calls[p].payload.id \in createdIds
  /\ \A o \in handoffAt("call", "tui.openSessions") :
       \E p \in handoffAt("call", "session.promptAsync") :
         p < o /\ calls[p].payload.id \in createdIds

\* C25 witness: session.create answered with data but an empty id and the
\* run ended with the failure text
C25_Witness ==
  /\ pc = "done"
  /\ result = <<[threw |-> FALSE, value |-> "Failed to create session"]>>
  /\ \E c \in handoffAt("settle", "session.create") :
       calls[c].payload.data = <<[id |-> <<"">>]>>
  /\ ctxSessionID = <<"ses_123">>

\* the three fetches of the session context
Fetches == {"session.get", "session.messages", "session.todo"}

\* the fetch op of session_handoff failed or delivered no data
fetchFailed(op) ==
  handoffAt("settle", op) # {}
    /\ (~answerTo(op).ok \/ answerTo(op).data = <<>>)

\* C26: for every subset of the three fetches that fails or returns no data,
\* session_handoff still proceeds to create the session and send a prompt,
\* using the default for each failed item (title "Unknown", no model/agent,
\* no Todos section) and the fetched value for each item that succeeded; one
\* fetch failing never discards another fetch's result. When the caller has no
\* session id, no fetch is issued at all.
C26_FailureTolerant ==
  LET creates == handoffAt("call", "session.create")
      allSettled == \A op \in Fetches : handoffAt("settle", op) # {}
      todoAnswer == answerTo("session.todo")
      m == lastAssistantDelivered
  IN /\ ctxSessionID \in {<<>>, <<"">>} =>
          \A op \in Fetches : handoffAt("call", op) = {}
     /\ allSettled => creates # {}
     /\ \A c \in creates :
          /\ ctxSessionID \notin {<<>>, <<"">>} => allSettled
          /\ fetchFailed("session.get") =>
               calls[c].payload.title = "Handoff: Unknown"
          /\ ~fetchFailed("session.get") =>
               calls[c].payload.title = "Handoff: " \o previousTitleDelivered
          /\ fetchFailed("session.messages") =>
               local.modelConfig = <<>> /\ local.agent = <<>>
          /\ (~fetchFailed("session.messages") /\ m # <<>>
                /\ m[1].mode \notin {<<>>, <<"">>}) => local.agent = m[1].mode
          /\ (~fetchFailed("session.messages") /\ m # <<>>
                /\ m[1].providerID \notin {<<>>, <<"">>}
                /\ m[1].modelID \notin {<<>>, <<"">>}) => local.modelConfig # <<>>
          /\ fetchFailed("session.todo") =>
               ~Contains(local.handoffPrompt, "### Todos")
          /\ (allSettled /\ ~fetchFailed("session.todo")
                /\ Len(todoAnswer.data[1]) > 0) =>
               Contains(local.handoffPrompt,
                        "### Todos\n"
                          \o ToString(Cardinality(
                               {k \in 1..Len(todoAnswer.data[1]) :
                                  todoAnswer.data[1][k].status = "completed"}))
                          \o "/" \o ToString(Len(todoAnswer.data[1]))
                          \o " complete")
     /\ \A p \in handoffAt("call", "session.promptAsync") : creates # {}
     /\ (isDefined(result) /\ valueOf(result).threw) =>
          \E op \in {"session.create", "session.promptAsync", "tui.openSessions"} :
            \E i \in handoffAt("settle", op) : ~calls[i].payload.ok

\* C26 witness: the title fetch was rejected and the message fetch delivered
\* no data, the todo list was delivered, and the run succeeded with the
\* default title and the Todos section
C26_Witness ==
  /\ HandoffSucceeded
  /\ variant = "index"
  /\ handoffAt("settle", "session.get") # {}
  /\ ~answerTo("session.get").ok
  /\ answerTo("session.messages").ok
  /\ answerTo("session.messages").data = <<>>
  /\ local.newTitle = "Handoff: Unknown"
  /\ Contains(local.handoffPrompt, "### Todos\n1/3 complete")

\* what the sequential code of src/index.ts computes from the three answers
\* that session_handoff received
sequentialContext ==
  Index_afterTodo(
    Index_afterMessages(
      Index_afterGet(localDefaults, answerTo("session.get")),
      answerTo("session.messages")),
    answerTo("session.todo"))

\* the prompt src/index.ts builds from the context l
sequentialPrompt(l) ==
  Index_buildHandoffPrompt(
    [previousSessionId |-> templateString(ctxSessionID),
     task |-> l.previousTitle,
     blocked |-> "",
     modified_files |-> <<>>, reference_files |-> <<>>,
     decisions |-> <<>>, tried_failed |-> <<>>,
     next_steps |-> <<>>, user_prefs |-> <<>>,
     todos |-> l.todos])

\* C27 as stated: in the parallel variant the context (title, todos, model,
\* agent) that gatherSessionContext returns, and hence the prompt and the
\* create/promptAsync calls, equal what the sequential variant computes from
\* the same three responses, for every order in which the three fetches
\* complete or fail; session.create is never issued before all three fetches
\* have settled.
C27_AsStated ==
  (variant = "part_003" /\ truthyOptional(ctxSessionID) /\ pc # "idle") =>
    LET seq == sequentialContext
    IN /\ \A c \in handoffAt("call", "session.create") :
            /\ \A op \in Fetches : \E i \in handoffAt("settle", op) : i < c
            /\ local.previousTitle = seq.previousTitle
            /\ local.todos = seq.todos
            /\ local.modelConfig = seq.modelConfig
            /\ local.agent = seq.agent
            /\ local.handoffPrompt = sequentialPrompt(seq)
            /\ calls[c].payload.title = "Handoff: " \o seq.previousTitle
       /\ \A p \in handoffAt("call", "session.promptAsync") :
            /\ calls[p].payload.model = seq.modelConfig
            /\ calls[p].payload.agent = seq.agent
            /\ calls[p].payload.parts =
                 <<[type |-> "text", text |-> sequentialPrompt(seq)]>>

\* C27: in the parallel variant gatherSessionContext starts the title,
\* message and todo fetches together; the title, model and agent of the
\* resulting context, the prompt and the create/promptAsync calls are the
\* same for every order in which the three fetches complete or fail, and
\* equal what the sequential variant computes from the same three responses;
\* the todo list equals the sequential one whenever the sequential variant
\* has one, and is the empty list where the sequential variant has none (the
\* todo fetch failed or delivered no list); session.create is never issued
\* before all three fetches have settled.
C27_Parallel ==
  (variant = "part_003" /\ truthyOptional(ctxSessionID) /\ pc # "idle") =>
    LET seq == sequentialContext
    IN /\ Len(calls) >= 3
       /\ \A k \in 1..3 : calls[k].kind = "call"
       /\ {calls[k].op : k \in 1..3} = Fetches
       /\ \A c \in handoffAt("call", "session.create") :
            /\ \A op \in Fetches : \E i \in handoffAt("settle", op) : i < c
            /\ local.previousTitle = seq.previousTitle
            /\ local.modelConfig = seq.modelConfig
            /\ local.agent = seq.agent
            /\ local.todos = IF isDefined(seq.todos) THEN seq.todos
                              ELSE defined(<<>>)
            /\ local.handoffPrompt = sequentialPrompt(seq)
            /\ calls[c].payload.title = "Handoff: " \o seq.previousTitle
       /\ \A p \in handoffAt("call", "session.promptAsync") :
            /\ calls[p].payload.model = seq.modelConfig
            /\ calls[p].payload.agent = seq.agent
            /\ calls[p].payload.parts =
                 <<[type |-> "text", text |-> sequentialPrompt(seq)]>>

\* C27 witness: in the parallel variant the todo fetch was rejected first,
\* then the messages arrived, then the title, and the prompt was sent: the
\* context holds the empty todo list where the sequential variant holds none,
\* and the prompt is the sequential one
C27_Witness ==
  /\ variant = "part_003"
  /\ pc = "prompt"
  /\ Len(calls) >= 6
  /\ calls[4].op = "session.todo" /\ calls[4].kind = "settle"
  /\ ~calls[4].payload.ok
  /\ calls[5].op = "session.messages" /\ calls[5].payload.ok
  /\ calls[6].op = "session.get"
  /\ local.previousTitle = "Fix login"
  /\ local.todos = defined(<<>>)
  /\ sequentialContext.todos = undefined
  /\ local.handoffPrompt = sequentialPrompt(sequentialContext)

\* C28: the imperative Detailed formatter of index.ts and the section-builder
\* Detailed formatter of prompt.ts / part_003 produce the same output for
\* every input record.
C28_SameOutput ==
  /\ fmt = "detailed" => out = Index_buildHandoffPrompt(input)
  /\ fmt = "none" => Index_buildHandoffPrompt(input) = buildHandoffPrompt(input)
  /\ \A c \in handoffAt("call", "session.create") :
       Index_buildHandoffPrompt(promptArgs(local)) = buildHandoffPrompt(promptArgs(local))

\* C28 witness: the section-builder formatter has rendered an input with every
\* section present, and the imperative formatter gives the same document
C28_Witness ==
  /\ fmt = "detailed"
  /\ isDefined(input.todos)
  /\ Len(input.tried_failed) > 0
  /\ Len(input.user_prefs) > 0
  /\ Contains(out, "### Blocked")
  /\ Contains(out, "### Files")
  /\ Contains(out, "### Next Steps")
  /\ out = Index_buildHandoffPrompt(input)

(***************************************************************************)
(* The auto-update hook (src/tsdown.config.ts:14-311).                     *)
(***************************************************************************)
PACKAGE_NAME == "opencode-session-handoff"

\* the character U+2192 of the toast text
rightArrow == "\\u2192"

\* an entry of the log of the update check
step(name, detail) == [step |-> name, detail |-> detail]

\* src/tsdown.config.ts:95, 98-106: the entry names the package with a version
isPinnedEntry(entry) ==
  /\ StartsWith(entry, PACKAGE_NAME \o "@")
  /\ Len(entry) > Len(PACKAGE_NAME) + 1

\* all the entries of the config file, in the order of the file
RECURSIVE allEntries(_)
allEntries(sections) ==
  IF Len(sections) = 0 THEN <<>>
  ELSE Head(sections).entries \o allEntries(Tail(sections))

\* src/tsdown.config.ts:89-121: the first pinned entry of the file, else the
\* first unpinned one, else nothing
findPluginEntry(cfg) ==
  IF ~isDefined(cfg) THEN undefined
  ELSE LET entries == allEntries(valueOf(cfg))
           pinned == {k \in 1..Len(entries) : isPinnedEntry(entries[k])}
           unpinned == {k \in 1..Len(entries) : entries[k] = PACKAGE_NAME}
           first(S) == CHOOSE k \in S : \A j \in S : k <= j
       IN IF pinned # {}
          THEN defined([entry |-> entries[first(pinned)], isPinned |-> TRUE,
                        pinnedVersion |->
                          defined(SubSeq(entries[first(pinned)],
                                         Len(PACKAGE_NAME) + 2,
                                         Len(entries[first(pinned)])))])
          ELSE IF unpinned # {}
          THEN defined([entry |-> PACKAGE_NAME, isPinned |-> FALSE,
                        pinnedVersion |-> undefined])
          ELSE undefined

\* src/tsdown.config.ts:123-159: the config file after updatePinnedVersion, or
\* undefined when it returns false
updatePinnedVersion(cfg, oldEntry, newVersion) ==
  LET sections == valueOf(cfg)
      newEntry == PACKAGE_NAME \o "@" \o newVersion
      plugins == {k \in 1..Len(sections) : sections[k].key = "plugin"}
      at == CHOOSE k \in plugins : \A j \in plugins : k <= j
      found == {k \in 1..Len(sections[at].entries) :
                  sections[at].entries[k] = oldEntry}
      where == CHOOSE k \in found : \A j \in found : k <= j
      updated == [sections EXCEPT ![at].entries[where] = newEntry]
  IN IF plugins = {} THEN undefined
     ELSE IF found = {} THEN undefined
     ELSE IF updated = sections THEN undefined
     ELSE defined(updated)

\* src/tsdown.config.ts:161-217: the cached package after invalidatePackage
invalidatePackage(c) ==
  LET c1 == [c EXCEPT !.pkgDir = FALSE]
      c2 == [c1 EXCEPT !.packageJson = IF @ = "listed" THEN "unlisted" ELSE @]
      c3 == [c2 EXCEPT !.bunLock = IF @ = "listed" THEN "unlisted" ELSE @]
  IN IF c.packageJson = "malformed" THEN c1
     ELSE IF c.bunLock = "malformed" THEN c2
     ELSE c3

\* src/tsdown.config.ts:283-290: the toast after bun install
installToast(success, current, latest) ==
  IF success
  THEN "session-handoff updated: v" \o current \o " " \o rightArrow
         \o " v" \o latest \o ". Restart to apply."
  ELSE "session-handoff v" \o latest \o " available. Restart to apply."

(***************************************************************************)
(* The events, versions and files of the auto-update hook.                 *)
(***************************************************************************)
Versions == {"1.0.0", "1.0.1"}

Events ==
  {[type |-> "session.created", parentID |-> undefined],
   [type |-> "session.created", parentID |-> defined("ses_parent")],
   [type |-> "session.idle", parentID |-> undefined]}

Configs ==
  {undefined,
   defined(<<[key |-> "plugin",
              entries |-> <<"opencode-other", PACKAGE_NAME \o "@1.0.0">>]>>),
   defined(<<[key |-> "plugin", entries |-> <<PACKAGE_NAME>>]>>),
   defined(<<[key |-> "plugin", entries |-> <<PACKAGE_NAME \o "@1.0.1">>]>>),
   defined(<<[key |-> "plugin", entries |-> <<"opencode-other">>]>>),
   defined(<<[key |-> "mcp", entries |-> <<PACKAGE_NAME \o "@1.0.0">>]>>),
   defined(<<[key |-> "mcp", entries |-> <<PACKAGE_NAME \o "@0.9.0">>],
             [key |-> "plugin", entries |-> <<PACKAGE_NAME \o "@1.0.0">>]>>)}

Caches ==
  {[pkgDir |-> TRUE, packageJson |-> "listed", bunLock |-> "listed"],
   [pkgDir |-> TRUE, packageJson |-> "malformed", bunLock |-> "listed"],
   [pkgDir |-> FALSE, packageJson |-> "missing", bunLock |-> "malformed"]}

\* what bun install ended with: an exit code, a spawn error, or the timeout
InstallOutcomes == {"exit 0", "exit 1", "error", "timeout"}

(***************************************************************************)
(* The state machine of the auto-update hook.                              *)
(***************************************************************************)
InitUpdate ==
  /\ input = Base
  /\ fmt = "none"
  /\ out = ""
  /\ TriggerIdle
  /\ ToolIdle
  /\ hasChecked = FALSE
  /\ eventLog = <<>>
  /\ timers = 0
  /\ checks = 0
  /\ upc = "idle"
  /\ installedVersion \in {undefined} \cup {defined(v) : v \in Versions}
  /\ latestVersion = undefined
  /\ config \in Configs
  /\ cache \in Caches
  /\ ulog = <<>>

\* src/tsdown.config.ts:297-309: the hook handles an event
HookEvent ==
  /\ Len(eventLog) < MaxEvents
  /\ \E ev \in Events :
       /\ eventLog' = Append(eventLog, ev)
       /\ IF ev.type # "session.created" \/ hasChecked
               \/ truthyOptional(ev.parentID)
          THEN UNCHANGED <<hasChecked, timers>>
          ELSE /\ hasChecked' = TRUE
               /\ timers' = timers + 1
  /\ UNCHANGED <<formatVars, triggerVars, toolVars, checks, upc,
                 installedVersion, latestVersion, config, cache, ulog>>

\* src/tsdown.config.ts:306-308, 260-264: the timer fires and runUpdateCheck
\* runs up to its first await
TimerFires ==
  /\ timers > 0
  /\ timers' = timers - 1
  /\ checks' = checks + 1
  /\ upc' = IF isDefined(installedVersion) THEN "latest" ELSE "done"
  /\ UNCHANGED <<formatVars, triggerVars, toolVars, hasChecked, eventLog,
                 installedVersion, latestVersion, config, cache, ulog>>

\* src/tsdown.config.ts:264-281: getLatestVersion settles and runUpdateCheck
\* runs up to its next await
LatestVersionSettles ==
  /\ upc = "latest"
  /\ \E latest \in {undefined} \cup {defined(v) : v \in Versions} :
       /\ latestVersion' = latest
       /\ IF ~isDefined(latest) \/ latest = installedVersion
          THEN /\ upc' = "done"
               /\ UNCHANGED <<config, cache, ulog>>
          ELSE LET pluginInfo == findPluginEntry(config)
                   updated == IF isDefined(pluginInfo) /\ valueOf(pluginInfo).isPinned
                              THEN updatePinnedVersion(config,
                                                       valueOf(pluginInfo).entry,
                                                       valueOf(latest))
                              ELSE undefined
               IN IF ~isDefined(pluginInfo)
                  THEN /\ upc' = "done"
                       /\ UNCHANGED <<config, cache, ulog>>
                  ELSE IF valueOf(pluginInfo).isPinned /\ ~isDefined(updated)
                  THEN /\ upc' = "toast"
                       /\ ulog' = Append(ulog,
                            step("toast", "session-handoff v" \o valueOf(latest)
                                            \o " available. Update manually."))
                       /\ UNCHANGED <<config, cache>>
                  ELSE /\ upc' = "install"
                       /\ config' = IF valueOf(pluginInfo).isPinned
                                    THEN updated ELSE config
                       /\ cache' = invalidatePackage(cache)
                       /\ ulog' = ulog
                            \o (IF valueOf(pluginInfo).isPinned
                                THEN <<step("config", valueOf(latest))>>
                                ELSE <<>>)
                            \o <<step("invalidate", ""), step("install", "")>>
  /\ UNCHANGED <<formatVars, triggerVars, toolVars, hasChecked, eventLog,
                 timers, checks, installedVersion>>

\* src/tsdown.config.ts:281-290, 219-250: bun install ends and the toast is
\* requested
BunInstallSettles ==
  /\ upc = "install"
  /\ \E outcome \in InstallOutcomes :
       ulog' = ulog \o <<step("installed", outcome),
                         step("toast",
                              installToast(outcome = "exit 0",
                                           valueOf(installedVersion),
                                           valueOf(latestVersion)))>>
  /\ upc' = "toast"
  /\ UNCHANGED <<formatVars, triggerVars, toolVars, hasChecked, eventLog,
                 timers, checks, installedVersion, latestVersion, config, cache>>

\* src/tsdown.config.ts:252-258: client.tui.showToast settles
ToastSettles ==
  /\ upc = "toast"
  /\ \E ok \in BOOLEAN :
       ulog' = Append(ulog, step("toasted", IF ok THEN "shown" ELSE "rejected"))
  /\ upc' = "done"
  /\ UNCHANGED <<formatVars, triggerVars, toolVars, hasChecked, eventLog,
                 timers, checks, installedVersion, latestVersion, config, cache>>

NextUpdate ==
  \/ HookEvent
  \/ TimerFires
  \/ LatestVersionSettles
  \/ BunInstallSettles
  \/ ToastSettles

SpecUpdate == InitUpdate /\ [][NextUpdate]_vars

\* the session.created events of top-level sessions handled so far
createdEvents ==
  {k \in 1..Len(eventLog) : /\ eventLog[k].type = "session.created"
                            /\ eventLog[k].parentID = <<>>}

\* the names of the steps the update check has logged, in order
stepNames == [k \in 1..Len(ulog) |-> ulog[k].step]

\* C22 as stated: each session.created event handled by the auto-update hook
\* leads to one run of the update check: every such event has either started
\* its check or has its timer pending.
C22_AsStated == checks + timers = Cardinality(createdEvents)

\* the versions of the package, oldest first
VersionOrder == <<"1.0.0", "1.0.1">>

\* version a is newer than version b
newer(a, b) ==
  \E i, j \in 1..Len(VersionOrder) :
    /\ VersionOrder[i] = a
    /\ VersionOrder[j] = b
    /\ i > j

\* C23 as stated: when the update check of a plugin named in the config finds
\* a version newer than the installed one, it updates the plugin entry in the
\* config, invalidates the cached package, runs bun install and shows a toast,
\* in this order, each step after the earlier one has finished, with exactly
\* one toast.
C23_AsStated ==
  (/\ upc = "done"
   /\ isDefined(latestVersion)
   /\ isDefined(installedVersion)
   /\ newer(valueOf(latestVersion), valueOf(installedVersion))
   /\ isDefined(findPluginEntry(config))) =>
    stepNames = <<"config", "invalidate", "install", "installed", "toast", "toasted">>

====
